---- MODULE Spec2Model ----
(***************************************************************************)
(* Model of the PDF financial-statement extraction core of the             *)
(* financial-expert repository:                                            *)
(*   core/pdf_analyzer.py  extract_financials_from_pdf,                    *)
(*                         compute_metrics_from_extracted                  *)
(*   core/llm_qwen.py      extract_financials_with_ai,                     *)
(*                         merge_ai_extracted_data                         *)
(*   core/pdf_text.py      extract_pdf_text, _extract_with_ocr             *)
(*   api.py                run_pdf_analysis_in_background (metric saving,  *)
(*                         concurrent runs, semaphore, report status)      *)
(*   pages/3_分析报告.py    _analyze_pdf_report (metric saving)             *)
(*                                                                         *)
(* Python floats are modelled as exact rationals (num/den, den > 0, in     *)
(* lowest terms); every input set below holds small integers, for which    *)
(* the float comparisons of the source agree with the exact ones.          *)
(***************************************************************************)
EXTENDS Integers, Sequences, FiniteSets, TLC

VARIABLES
    pc,        \* position of the modelled call
    data,      \* the ExtractedFinancials struct
    data0,     \* the struct as it was before merge_ai_extracted_data ran
    ai_data,   \* the dict handed to merge_ai_extracted_data
    overrode,  \* the _ai_overrode list merge_ai_extracted_data leaves on the struct
    metrics,   \* the dict returned by compute_metrics_from_extracted
    store,     \* rows of computed_metrics of the report: (metric_code, value)
    status,    \* Report.status
    probe,     \* one call of _is_reasonable: its arguments and its result
    run,       \* one call of extract_financials_from_pdf: inputs, counters, outcome
    tx,        \* one call of extract_pdf_text: inputs, readers run, out
    ocr,       \* one call of _extract_with_ocr: options, faults, pages, result
    pick,      \* one call of _pick_pages_smart: page_count, k, previews, picked
    dates,     \* the reporting-period inference: matches, date_candidates, result
    gprobe,    \* one call of _is_garbled_text: its argument and its result
    env,       \* api.py: PDF_ANALYSIS_CONCURRENCY, FORCE_PDF_AI, ENABLE_PDF_AI, key
    sem,       \* the value of _PDF_ANALYSIS_SEM
    report,    \* reports table: report id -> status, error_message
    computed_metrics,  \* table: rows (report_id, metric_code, writer)
    th         \* the threads running run_pdf_analysis_in_background

vars == <<pc, data, data0, ai_data, overrode, metrics, store, status, probe, run,
          tx, ocr, pick, dates, gprobe, env, sem, report,
          computed_metrics, th>>

bgVars == <<env, sem, report, computed_metrics, th>>

pdfVars == <<tx, ocr, pick, dates, gprobe, bgVars>>

mergeVars == <<data0, ai_data, overrode>>

saveVars == <<store, status>>

----------------------------------------------------------------------------
(* Values: None, floats, strings (sequences of characters) and other JSON. *)

Null == [t |-> "null", n |-> 0, s |-> <<>>]

Num(x) == [t |-> "num", n |-> x, s |-> <<>>]

Str(cs) == [t |-> "str", n |-> 0, s |-> cs]

\* a JSON list or object met where a scalar was expected
Obj == [t |-> "obj", n |-> 0, s |-> <<>>]

\* dict.get(key) on a key the dict does not hold
Missing == [t |-> "missing", n |-> 0, s |-> <<>>]

IsNone(v) == v.t = "null"

\* Python truthiness of a field: None, 0.0 and "" are falsy
Truthy(v) ==
    \/ v.t = "num" /\ v.n # 0
    \/ v.t = "str" /\ v.s # <<>>
    \/ v.t = "obj"

----------------------------------------------------------------------------
(* Exact rationals for metric values.                                      *)

Abs(x) == IF x < 0 THEN -x ELSE x

RECURSIVE Gcd(_, _)
Gcd(a, b) == IF b = 0 THEN a ELSE Gcd(b, a % b)

\* a metric the dict does not hold
Absent == [k |-> "absent", num |-> 0, den |-> 1]

\* ZeroDivisionError
Raised == [k |-> "raised", num |-> 0, den |-> 1]

Rat(a, b) ==
    LET g == Gcd(Abs(a), Abs(b))
        sg == IF b < 0 THEN -1 ELSE 1
    IN  [k |-> "val", num |-> (sg * a) \div g, den |-> (sg * b) \div g]

\* a / b on floats
Div(a, b) == IF b = 0 THEN Raised ELSE Rat(a, b)

\* r * 100
Times100(r) == IF r.k = "val" THEN Rat(r.num * 100, r.den) ELSE r

RatLe(a, b) == a.num * b.den <= b.num * a.den

IsVal(r) == r.k = "val"

----------------------------------------------------------------------------
(* ExtractedFinancials                                                     *)

RawFields ==
    {"revenue", "cost", "gross_profit", "net_profit", "total_assets",
     "total_liabilities", "total_equity", "current_assets",
     "current_liabilities", "cash", "inventory", "receivables", "fixed_assets"}

DirectFields ==
    {"gross_margin_direct", "net_margin_direct", "roe_direct", "roa_direct",
     "current_ratio_direct", "debt_ratio_direct"}

PeriodFields == {"report_period", "report_year"}

Fields == RawFields \cup DirectFields \cup PeriodFields

\* ExtractedFinancials(): every field None
ExtractedFinancials == [f \in Fields |-> Null]

Codes ==
    {"GROSS_MARGIN", "NET_MARGIN", "ROE", "ROA", "DEBT_ASSET", "CURRENT_RATIO",
     "QUICK_RATIO", "EQUITY_RATIO", "INVENTORY_TURNOVER", "RECEIVABLE_TURNOVER",
     "ASSET_TURNOVER"}

----------------------------------------------------------------------------
(* compute_metrics_from_extracted: one operator per key of the dict.       *)

\* a float field as a metric value
AsMetric(v) == Rat(v.n, 1)

\* NET_MARGIN with a revenue guard that tests only for None and drops "> 0"
NET_MARGIN_NoneOnly(d) ==
    IF Truthy(d.net_margin_direct) THEN AsMetric(d.net_margin_direct)
    ELSE IF ~IsNone(d.revenue) /\ ~IsNone(d.net_profit)
    THEN Times100(Div(d.net_profit.n, d.revenue.n))
    ELSE Absent

GROSS_MARGIN(d) ==
    IF Truthy(d.gross_margin_direct) THEN AsMetric(d.gross_margin_direct)
    ELSE IF Truthy(d.revenue) /\ Truthy(d.gross_profit) /\ d.revenue.n > 0
    THEN Times100(Div(d.gross_profit.n, d.revenue.n))
    ELSE IF Truthy(d.revenue) /\ Truthy(d.cost) /\ d.revenue.n > 0
    THEN Times100(Div(d.revenue.n - d.cost.n, d.revenue.n))
    ELSE Absent

NET_MARGIN(d) ==
    IF Truthy(d.net_margin_direct) THEN AsMetric(d.net_margin_direct)
    ELSE IF Truthy(d.revenue) /\ Truthy(d.net_profit) /\ d.revenue.n > 0
    THEN Times100(Div(d.net_profit.n, d.revenue.n))
    ELSE Absent

ROE(d) ==
    IF Truthy(d.roe_direct) THEN AsMetric(d.roe_direct)
    ELSE IF Truthy(d.total_equity) /\ Truthy(d.net_profit) /\ d.total_equity.n > 0
    THEN Times100(Div(d.net_profit.n, d.total_equity.n))
    ELSE Absent

ROA(d) ==
    IF Truthy(d.roa_direct) THEN AsMetric(d.roa_direct)
    ELSE IF Truthy(d.total_assets) /\ Truthy(d.net_profit) /\ d.total_assets.n > 0
    THEN Times100(Div(d.net_profit.n, d.total_assets.n))
    ELSE Absent

DEBT_ASSET(d) ==
    IF Truthy(d.debt_ratio_direct) THEN AsMetric(d.debt_ratio_direct)
    ELSE IF Truthy(d.total_assets) /\ Truthy(d.total_liabilities) /\ d.total_assets.n > 0
    THEN Times100(Div(d.total_liabilities.n, d.total_assets.n))
    ELSE Absent

CURRENT_RATIO(d) ==
    IF Truthy(d.current_ratio_direct) THEN AsMetric(d.current_ratio_direct)
    ELSE IF Truthy(d.current_assets) /\ Truthy(d.current_liabilities)
            /\ d.current_liabilities.n > 0
    THEN Div(d.current_assets.n, d.current_liabilities.n)
    ELSE Absent

QUICK_RATIO(d) ==
    IF Truthy(d.current_assets) /\ Truthy(d.current_liabilities)
       /\ d.current_liabilities.n > 0
    THEN LET inventory == IF Truthy(d.inventory) THEN d.inventory.n ELSE 0
         IN  Div(d.current_assets.n - inventory, d.current_liabilities.n)
    ELSE Absent

EQUITY_RATIO(d) ==
    IF Truthy(d.total_liabilities) /\ Truthy(d.total_equity) /\ d.total_equity.n > 0
    THEN Div(d.total_liabilities.n, d.total_equity.n)
    ELSE Absent

INVENTORY_TURNOVER(d) ==
    IF Truthy(d.cost) /\ Truthy(d.inventory) /\ d.inventory.n > 0
    THEN Div(d.cost.n, d.inventory.n)
    ELSE Absent

RECEIVABLE_TURNOVER(d) ==
    IF Truthy(d.revenue) /\ Truthy(d.receivables) /\ d.receivables.n > 0
    THEN Div(d.revenue.n, d.receivables.n)
    ELSE Absent

ASSET_TURNOVER(d) ==
    IF Truthy(d.revenue) /\ Truthy(d.total_assets) /\ d.total_assets.n > 0
    THEN Div(d.revenue.n, d.total_assets.n)
    ELSE Absent

\* the returned dict, as a function of the metric code (Absent: no such key)
compute_metrics_from_extracted(d) ==
    [c \in Codes |->
        CASE c = "GROSS_MARGIN" -> GROSS_MARGIN(d)
          [] c = "NET_MARGIN" -> NET_MARGIN(d)
          [] c = "ROE" -> ROE(d)
          [] c = "ROA" -> ROA(d)
          [] c = "DEBT_ASSET" -> DEBT_ASSET(d)
          [] c = "CURRENT_RATIO" -> CURRENT_RATIO(d)
          [] c = "QUICK_RATIO" -> QUICK_RATIO(d)
          [] c = "EQUITY_RATIO" -> EQUITY_RATIO(d)
          [] c = "INVENTORY_TURNOVER" -> INVENTORY_TURNOVER(d)
          [] c = "RECEIVABLE_TURNOVER" -> RECEIVABLE_TURNOVER(d)
          [] c = "ASSET_TURNOVER" -> ASSET_TURNOVER(d)]

\* the call raised instead of returning
ComputeRaises(d) == \E c \in Codes : compute_metrics_from_extracted(d)[c].k = "raised"

NoMetrics == [c \in Codes |-> Absent]

----------------------------------------------------------------------------
(* Plausibility filter of the API run and the two metric-saving handlers.  *)

Between(lo, r, hi) == RatLe(Rat(lo, 1), r) /\ RatLe(r, Rat(hi, 1))

\* _is_reasonable with the DEBT_ASSET branch dropped: the code falls to _is_pct_code
_is_reasonable_NoDebtBranch(code, v) ==
    IF ~IsVal(v) THEN FALSE
    ELSE IF code \in {"GROSS_MARGIN", "NET_MARGIN"} THEN Between(-50, v, 100)
    ELSE IF code \in {"ROE", "ROA"} THEN Between(-200, v, 500)
    ELSE IF code \in {"GROSS_MARGIN", "NET_MARGIN", "ROE", "ROA", "DEBT_ASSET"}
    THEN Between(-200, v, 500)
    ELSE IF code \in {"CURRENT_RATIO", "QUICK_RATIO"} THEN Between(0, v, 50)
    ELSE IF code \in {"ASSET_TURNOVER", "INVENTORY_TURNOVER", "RECEIVABLE_TURNOVER"}
    THEN Between(0, v, 1000)
    ELSE TRUE

_is_pct_code(code) == code \in {"GROSS_MARGIN", "NET_MARGIN", "ROE", "ROA", "DEBT_ASSET"}

\* v is a metric value, or Absent for None
_is_reasonable(code, v) ==
    IF ~IsVal(v) THEN FALSE
    ELSE IF code \in {"GROSS_MARGIN", "NET_MARGIN"} THEN Between(-50, v, 100)
    ELSE IF code \in {"ROE", "ROA"} THEN Between(-200, v, 500)
    ELSE IF code \in {"DEBT_ASSET"} THEN Between(-50, v, 200)
    ELSE IF _is_pct_code(code) THEN Between(-200, v, 500)
    ELSE IF code \in {"CURRENT_RATIO", "QUICK_RATIO"} THEN Between(0, v, 50)
    ELSE IF code \in {"ASSET_TURNOVER", "INVENTORY_TURNOVER", "RECEIVABLE_TURNOVER"}
    THEN Between(0, v, 1000)
    ELSE TRUE

\* raw_metric_meta: code -> field of the struct
RawCodes ==
    {<<"IS.REVENUE", "revenue">>, <<"IS.NET_PROFIT", "net_profit">>,
     <<"BS.ASSET_TOTAL", "total_assets">>, <<"BS.LIAB_TOTAL", "total_liabilities">>,
     <<"BS.EQUITY_TOTAL", "total_equity">>, <<"BS.CASH", "cash">>}

\* metrics_to_save of run_pdf_analysis_in_background, as rows (code, value)
metrics_to_save(d) ==
    LET computed == compute_metrics_from_extracted(d)
    IN  {<<c, computed[c]>> : c \in {x \in Codes : _is_reasonable(x, computed[x])}}
        \cup {<<rc[1], AsMetric(d[rc[2]])>> :
                rc \in {x \in RawCodes : ~IsNone(d[x[2]])
                                         /\ _is_reasonable(x[1], AsMetric(d[x[2]]))}}

has_some_raw(d) ==
    \E f \in {"revenue", "net_profit", "total_assets", "total_liabilities",
              "total_equity"} : ~IsNone(d[f])

\* the rows _analyze_pdf_report adds: every key of the dict whose value is not None
DashboardRows(d) ==
    LET m == compute_metrics_from_extracted(d)
    IN  {<<c, m[c]>> : c \in {x \in Codes : IsVal(m[x])}}

----------------------------------------------------------------------------
(* merge_ai_extracted_data                                                 *)

\* field_map: key of the AI dict -> field of the struct
field_map ==
    [report_period |-> "report_period", report_year |-> "report_year",
     revenue |-> "revenue", net_profit |-> "net_profit",
     total_assets |-> "total_assets", total_liabilities |-> "total_liabilities",
     total_equity |-> "total_equity", gross_profit |-> "gross_profit",
     current_assets |-> "current_assets",
     current_liabilities |-> "current_liabilities",
     gross_margin |-> "gross_margin_direct", net_margin |-> "net_margin_direct",
     roe |-> "roe_direct", roa |-> "roa_direct",
     current_ratio |-> "current_ratio_direct", debt_ratio |-> "debt_ratio_direct"]

AiKeys == DOMAIN field_map

MappedFields == {field_map[k] : k \in AiKeys}

KeyOf(f) == CHOOSE k \in AiKeys : field_map[k] = f

PctKeys == {"gross_margin", "net_margin", "roe", "roa", "debt_ratio"}

Digits == {"0", "1", "2", "3", "4", "5", "6", "7", "8", "9"}

DigitVal(c) ==
    CASE c = "0" -> 0 [] c = "1" -> 1 [] c = "2" -> 2 [] c = "3" -> 3
      [] c = "4" -> 4 [] c = "5" -> 5 [] c = "6" -> 6 [] c = "7" -> 7
      [] c = "8" -> 8 [] c = "9" -> 9

RECURSIVE LStrip(_)
LStrip(cs) == IF cs # <<>> /\ Head(cs) = " " THEN LStrip(Tail(cs)) ELSE cs

RECURSIVE RStrip(_)
RStrip(cs) ==
    IF cs # <<>> /\ cs[Len(cs)] = " " THEN RStrip(SubSeq(cs, 1, Len(cs) - 1)) ELSE cs

\* str.strip()
Strip(cs) == RStrip(LStrip(cs))

RECURSIVE DigitsValue(_, _)
DigitsValue(cs, acc) ==
    IF cs = <<>> THEN acc ELSE DigitsValue(Tail(cs), 10 * acc + DigitVal(Head(cs)))

AllDigits(cs) == cs # <<>> /\ \A i \in 1..Len(cs) : cs[i] \in Digits

\* float(sv) on a stripped string over digits, sign, letters and "-":
\* Null stands for the ValueError the caller catches
ParseFloat(cs) ==
    IF AllDigits(cs) THEN Num(DigitsValue(cs, 0))
    ELSE IF cs # <<>> /\ Head(cs) \in {"-", "+"} /\ AllDigits(Tail(cs))
    THEN Num((IF Head(cs) = "-" THEN -1 ELSE 1) * DigitsValue(Tail(cs), 0))
    ELSE Null

Sentinels ==
    {<<>>, <<"n", "u", "l", "l">>, <<"N", "o", "n", "e">>, <<"n", "a", "n">>,
     <<"N", "a", "N">>, <<"-", "-">>}

_to_float(v) ==
    IF v.t \in {"null", "missing"} THEN Null
    ELSE IF v.t = "num" THEN Num(v.n)
    ELSE IF v.t = "str"
    THEN LET sv == Strip(v.s)
         IN  IF sv \in Sentinels THEN Null ELSE ParseFloat(sv)
    ELSE Null

\* _should_override comparing ai / cur without abs()
_should_override_NoAbs(cur, ai, is_pct) ==
    IF IsNone(ai) THEN FALSE
    ELSE IF IsNone(cur) THEN TRUE
    ELSE IF cur.n = 0 THEN TRUE
    ELSE IF is_pct
    THEN ~(0 <= cur.n /\ cur.n <= 100) /\ (0 <= ai.n /\ ai.n <= 100)
    ELSE /\ cur.n # 0 /\ ai.n # 0
         /\ IF cur.n > 0
            THEN ai.n >= 10 * cur.n \/ 10 * ai.n <= cur.n
            ELSE ai.n <= 10 * cur.n \/ 10 * ai.n >= cur.n

\* _should_override overriding a percentage whenever the AI value is in range
_should_override_PctAiOnly(cur, ai, is_pct) ==
    IF IsNone(ai) THEN FALSE
    ELSE IF IsNone(cur) THEN TRUE
    ELSE IF cur.n = 0 THEN TRUE
    ELSE IF is_pct THEN 0 <= ai.n /\ ai.n <= 100
    ELSE /\ cur.n # 0 /\ ai.n # 0
         /\ (Abs(ai.n) >= 10 * Abs(cur.n) \/ 10 * Abs(ai.n) <= Abs(cur.n))

\* cur, ai: Null or Num; abs(ai / cur) >= 10 or <= 0.1 is compared exactly
_should_override(cur, ai, is_pct) ==
    IF IsNone(ai) THEN FALSE
    ELSE IF IsNone(cur) THEN TRUE
    ELSE IF cur.n = 0 THEN TRUE
    ELSE IF is_pct
    THEN ~(0 <= cur.n /\ cur.n <= 100) /\ (0 <= ai.n /\ ai.n <= 100)
    ELSE /\ cur.n # 0 /\ ai.n # 0
         /\ (Abs(ai.n) >= 10 * Abs(cur.n) \/ 10 * Abs(ai.n) <= Abs(cur.n))

\* the keys whose field the loop overwrites
Overridden(extracted, ai) ==
    {k \in AiKeys :
        _should_override(_to_float(extracted[field_map[k]]), _to_float(ai[k]),
                         k \in PctKeys)}

\* the struct after the loop over field_map
merge_ai_extracted_data(extracted, ai) ==
    [f \in Fields |->
        IF f \in MappedFields /\ KeyOf(f) \in Overridden(extracted, ai)
        THEN _to_float(ai[KeyOf(f)])
        ELSE extracted[f]]

----------------------------------------------------------------------------
(* Idle values of the variables a specification does not use.              *)

NoAiData == [k \in AiKeys |-> Missing]

NoProbe == [code |-> "", v |-> Absent, ok |-> FALSE]

IdleMerge == data0 = ExtractedFinancials /\ ai_data = NoAiData /\ overrode = {}

IdleCompute == metrics = NoMetrics

IdleSave == store = {} /\ status = "running"

IdleFilter == probe = NoProbe

NoRun ==
    [use_ai |-> FALSE, force_ai |-> FALSE, has_key |-> FALSE, pdf |-> "",
     ai_calls |-> 0, ai_out |-> "not_called", ai_enhanced |-> FALSE, error |-> ""]

IdleRun == run = NoRun

NoCall == [pc |-> "idle"]

IdleTx == tx = NoCall

IdleOcr == ocr = NoCall

IdlePick == pick = NoCall

IdleDates == dates = NoCall

IdleGarbled == gprobe = NoCall

IdleBg ==
    env = NoCall /\ sem = 0 /\ report = NoCall /\ computed_metrics = {}
    /\ th = NoCall

IdlePdf ==
    IdleTx /\ IdleOcr /\ IdlePick /\ IdleDates /\ IdleGarbled /\ IdleBg

----------------------------------------------------------------------------
(* SpecCompute: compute_metrics_from_extracted and the two handlers that   *)
(* save its result, applied to structs the extraction can produce.         *)

\* amounts range over multiples of 100 up to this many hundreds, either sign
MaxAmount == 5

\* a field the AI merge can set holds any float; zero and negatives included
AmountVals == {Null} \cup {Num(100 * k) : k \in -MaxAmount..MaxAmount}

DirectVals == {Null, Num(0), Num(35), Num(150), Num(600), Num(-60)}

\* the fields only the patterns set hold None or a value at or above their floor
Dom(f) ==
    IF f \in DirectFields THEN DirectVals
    ELSE IF f = "cost" THEN {Null, Num(1000)}
    ELSE IF f \in {"inventory", "receivables"} THEN {Null, Num(100)}
    ELSE IF f \in MappedFields THEN AmountVals
    ELSE {Null}

\* the fields one metric reads ("fixed_assets" pads: no metric reads it)
Rel(c) ==
    CASE c = "GROSS_MARGIN" -> <<"gross_margin_direct", "revenue", "gross_profit", "cost">>
      [] c = "NET_MARGIN" -> <<"net_margin_direct", "revenue", "net_profit", "fixed_assets">>
      [] c = "ROE" -> <<"roe_direct", "total_equity", "net_profit", "fixed_assets">>
      [] c = "ROA" -> <<"roa_direct", "total_assets", "net_profit", "fixed_assets">>
      [] c = "DEBT_ASSET" ->
            <<"debt_ratio_direct", "total_assets", "total_liabilities", "fixed_assets">>
      [] c = "CURRENT_RATIO" ->
            <<"current_ratio_direct", "current_assets", "current_liabilities", "fixed_assets">>
      [] c = "QUICK_RATIO" ->
            <<"current_assets", "current_liabilities", "inventory", "fixed_assets">>
      [] c = "EQUITY_RATIO" ->
            <<"total_liabilities", "total_equity", "fixed_assets", "fixed_assets">>
      [] c = "INVENTORY_TURNOVER" -> <<"cost", "inventory", "fixed_assets", "fixed_assets">>
      [] c = "RECEIVABLE_TURNOVER" ->
            <<"revenue", "receivables", "fixed_assets", "fixed_assets">>
      [] c = "ASSET_TURNOVER" -> <<"revenue", "total_assets", "fixed_assets", "fixed_assets">>

InitCompute ==
    /\ pc = "extracted"
    /\ \E c \in Codes :
         \E v1 \in Dom(Rel(c)[1]), v2 \in Dom(Rel(c)[2]),
            v3 \in Dom(Rel(c)[3]), v4 \in Dom(Rel(c)[4]) :
            data = [f \in Fields |->
                      IF f = Rel(c)[1] THEN v1
                      ELSE IF f = Rel(c)[2] THEN v2
                      ELSE IF f = Rel(c)[3] THEN v3
                      ELSE IF f = Rel(c)[4] THEN v4
                      ELSE Null]
    /\ IdleMerge /\ IdleCompute /\ IdleSave /\ IdleFilter /\ IdleRun /\ IdlePdf

\* metrics = compute_metrics_from_extracted(data)
Compute ==
    /\ pc = "extracted"
    /\ pc' = IF ComputeRaises(data) THEN "raised" ELSE "computed"
    /\ metrics' = IF ComputeRaises(data) THEN NoMetrics
                  ELSE compute_metrics_from_extracted(data)
    /\ UNCHANGED <<data, mergeVars, saveVars, probe, run, pdfVars>>

\* run_pdf_analysis_in_background from "Save extracted metrics" on: the old
\* rows are deleted, the rows that pass _is_reasonable are added
ApiSave ==
    /\ pc = "extracted"
    /\ store' = metrics_to_save(data)
    /\ status' = IF metrics_to_save(data) # {} \/ has_some_raw(data)
                 THEN "done" ELSE "failed"
    /\ pc' = "saved_api"
    /\ UNCHANGED <<data, mergeVars, metrics, probe, run, pdfVars>>

\* _analyze_pdf_report from "metrics = compute_metrics_from_extracted" on; an
\* empty dict raises ValueError and the caller marks the report failed
DashboardSave ==
    /\ pc = "extracted"
    /\ IF DashboardRows(data) = {}
       THEN /\ pc' = "save_failed"
            /\ status' = "failed"
            /\ store' = store
       ELSE /\ pc' = "saved_dashboard"
            /\ status' = "done"
            /\ store' = DashboardRows(data)
    /\ UNCHANGED <<data, mergeVars, metrics, probe, run, pdfVars>>

NextCompute == Compute \/ ApiSave \/ DashboardSave

SpecCompute == InitCompute /\ [][NextCompute]_vars

----------------------------------------------------------------------------
(* SpecFilter: one call of _is_reasonable on values around every boundary. *)

ProbeInts ==
    {-201, -200, -199, -51, -50, -49, -1, 0, 1, 49, 50, 51, 99, 100, 101,
     150, 199, 200, 201, 499, 500, 501, 999, 1000, 1001}

\* the integers above and the half-integers next to them; Absent is None
ProbeVals == {Rat(n, 1) : n \in ProbeInts} \cup {Rat(2 * n + 1, 2) : n \in ProbeInts}
             \cup {Absent}

InitFilter ==
    /\ pc = "probe"
    /\ probe \in [code : Codes, v : ProbeVals, ok : {FALSE}]
    /\ data = ExtractedFinancials
    /\ IdleMerge /\ IdleCompute /\ IdleSave /\ IdleRun /\ IdlePdf

IsReasonableCall ==
    /\ pc = "probe"
    /\ probe' = [probe EXCEPT !.ok = _is_reasonable(probe.code, probe.v)]
    /\ pc' = "probed"
    /\ UNCHANGED <<data, mergeVars, metrics, saveVars, run, pdfVars>>

NextFilter == IsReasonableCall

SpecFilter == InitFilter /\ [][NextFilter]_vars

----------------------------------------------------------------------------
(* The derivations as sections 4.7 and 4.8 of the specification state them *)
(* (used by the claims only).                                              *)

\* the *_direct field of a code, "" when it has none
DirectOf(c) ==
    CASE c = "GROSS_MARGIN" -> "gross_margin_direct"
      [] c = "NET_MARGIN" -> "net_margin_direct"
      [] c = "ROE" -> "roe_direct"
      [] c = "ROA" -> "roa_direct"
      [] c = "CURRENT_RATIO" -> "current_ratio_direct"
      [] c = "DEBT_ASSET" -> "debt_ratio_direct"
      [] OTHER -> ""

DirectNull(c, d) == DirectOf(c) = "" \/ IsNone(d[DirectOf(c)])

\* the denominator field of a code's derivation
DenOf(c) ==
    CASE c \in {"GROSS_MARGIN", "NET_MARGIN"} -> "revenue"
      [] c \in {"ROE", "EQUITY_RATIO"} -> "total_equity"
      [] c \in {"ROA", "DEBT_ASSET", "ASSET_TURNOVER"} -> "total_assets"
      [] c \in {"CURRENT_RATIO", "QUICK_RATIO"} -> "current_liabilities"
      [] c = "INVENTORY_TURNOVER" -> "inventory"
      [] c = "RECEIVABLE_TURNOVER" -> "receivables"

\* the numerator field of a code's derivation (gross margin: see below)
NumOf(c) ==
    CASE c \in {"NET_MARGIN", "ROE", "ROA"} -> "net_profit"
      [] c \in {"DEBT_ASSET", "EQUITY_RATIO"} -> "total_liabilities"
      [] c \in {"CURRENT_RATIO", "QUICK_RATIO"} -> "current_assets"
      [] c = "INVENTORY_TURNOVER" -> "cost"
      [] c \in {"RECEIVABLE_TURNOVER", "ASSET_TURNOVER"} -> "revenue"
      [] c = "GROSS_MARGIN" -> "gross_profit"

\* every raw field some derivation of the code requires is present; gross margin
\* has two derivations (gross_profit / revenue, (revenue - cost) / revenue), and
\* the inventory of the quick ratio is not required
RawComplete(c, d) ==
    /\ ~IsNone(d[DenOf(c)])
    /\ IF c = "GROSS_MARGIN" THEN ~IsNone(d.gross_profit) \/ ~IsNone(d.cost)
       ELSE ~IsNone(d[NumOf(c)])

PercentCodes == {"GROSS_MARGIN", "NET_MARGIN", "ROE", "ROA", "DEBT_ASSET"}

\* the value the stated derivation gives, where RawComplete and the denominator # 0
Stated(c, d) ==
    LET den == d[DenOf(c)].n
        num == IF c = "GROSS_MARGIN"
               THEN IF ~IsNone(d.gross_profit) THEN d.gross_profit.n
                    ELSE d.revenue.n - d.cost.n
               ELSE IF c = "QUICK_RATIO"
               THEN d.current_assets.n - (IF IsNone(d.inventory) THEN 0 ELSE d.inventory.n)
               ELSE d[NumOf(c)].n
    IN  IF c \in PercentCodes THEN Rat(100 * num, den) ELSE Rat(num, den)

\* section 4.8: the declared range of a code's kind
DeclaredRange(c) ==
    CASE c \in {"GROSS_MARGIN", "NET_MARGIN", "DEBT_ASSET"} -> <<-50, 100>>
      [] c \in {"ROE", "ROA"} -> <<-200, 500>>
      [] c \in {"CURRENT_RATIO", "QUICK_RATIO"} -> <<0, 50>>
      [] c \in {"ASSET_TURNOVER", "INVENTORY_TURNOVER", "RECEIVABLE_TURNOVER"} -> <<0, 1000>>

RangedCodes == Codes \ {"EQUITY_RATIO"}

InDeclaredRange(c, v) ==
    IsVal(v) /\ Between(DeclaredRange(c)[1], v, DeclaredRange(c)[2])

----------------------------------------------------------------------------
(* Claims on compute_metrics_from_extracted and the plausibility filter.   *)

\* C1: compute never raises, and for every code whose direct field is null, if
\* some raw field every derivation of it requires is null (a null inventory of
\* QUICK_RATIO excepted) or its denominator is exactly zero, the dict holds no
\* value for the code.
C1_NullPropagation ==
    /\ pc # "raised"
    /\ pc = "computed" =>
         \A c \in Codes :
            (DirectNull(c, data) /\ (~RawComplete(c, data) \/ data[DenOf(c)].n = 0))
               => metrics[c] = Absent

\* C1 witness: computed on revenue = 0 with a net profit and no direct net margin
C1_Witness ==
    /\ pc = "computed"
    /\ IsNone(data.net_margin_direct)
    /\ data.revenue = Num(0)
    /\ data.net_profit = Num(200)
    /\ metrics["NET_MARGIN"] = Absent

\* C2: for every ratio whose direct field is null, with the numerator fields
\* present (zero and negative included) and the denominator present and
\* non-zero (negative included), the metric is emitted and equals the stated
\* derivation.
C2_DerivedWhenPresent ==
    pc = "computed" =>
       \A c \in Codes \ {"QUICK_RATIO"} :
          (DirectNull(c, data) /\ RawComplete(c, data) /\ data[DenOf(c)].n # 0)
             => metrics[c] = Stated(c, data)

\* C3: whenever the direct field of a code is non-null (0 included), the emitted
\* metric equals the direct value whatever the raw fields hold.
C3_DirectPreferred ==
    pc = "computed" =>
       \A c \in {x \in Codes : DirectOf(x) # ""} :
          ~IsNone(data[DirectOf(c)]) => metrics[c] = Rat(data[DirectOf(c)].n, 1)

\* C4: whenever current_assets is present and current_liabilities is present and
\* non-zero, QUICK_RATIO is emitted and equals (current_assets - inventory) /
\* current_liabilities with a null inventory taken as 0.
C4_QuickRatio ==
    pc = "computed" =>
       ((RawComplete("QUICK_RATIO", data) /\ data.current_liabilities.n # 0)
          => metrics["QUICK_RATIO"] = Stated("QUICK_RATIO", data))

\* C5: after a run that saves metrics (the API background run or the dashboard's
\* _analyze_pdf_report), every saved ratio metric lies in the declared range of
\* its kind.
C5_SavedInRange ==
    pc \in {"saved_api", "saved_dashboard"} =>
       \A row \in store :
          row[1] \in RangedCodes => InDeclaredRange(row[1], row[2])

\* C6 as stated: _is_reasonable is true exactly on the non-null values of the
\* declared closed range, [-50, 100] for DEBT_ASSET.
C6_DeclaredRanges ==
    pc = "probed" =>
       (probe.code \in RangedCodes
          => probe.ok = InDeclaredRange(probe.code, probe.v))

\* the ranges of C6 with DEBT_ASSET widened to [-50, 200]
AmendedRange(c) == IF c = "DEBT_ASSET" THEN <<-50, 200>> ELSE DeclaredRange(c)

\* C6 amended: _is_reasonable is true exactly on the non-null values of the
\* closed range of the code's kind, which is [-50, 200] for DEBT_ASSET and the
\* declared one for the other nine codes.
C6_CodeRanges ==
    pc = "probed" =>
       (probe.code \in RangedCodes
          => probe.ok = (IsVal(probe.v)
                         /\ Between(AmendedRange(probe.code)[1], probe.v,
                                    AmendedRange(probe.code)[2])))

\* C6 witness: a debt/asset ratio of 150 is accepted
C6_Witness ==
    /\ pc = "probed"
    /\ probe.code = "DEBT_ASSET"
    /\ probe.v = Rat(150, 1)
    /\ probe.ok

----------------------------------------------------------------------------
(* SpecMerge: merge_ai_extracted_data on one field of a struct the pattern *)
(* stage can produce and one key of the AI dict.                           *)

DateString == <<"2", "0", "2", "4", "-", "1", "2", "-", "3", "1">>

YearString == <<"2", "0", "2", "4">>

\* what the pattern stage can leave in a field: a percentage in (0, 500), an
\* amount at or above the field's floor, a difference of two amounts for the
\* derived total_liabilities and total_equity, None for the two ratios no
\* pattern reads
BaseVals(f) ==
    IF f \in {"gross_margin_direct", "net_margin_direct", "roe_direct", "roa_direct"}
    THEN {Null, Num(35), Num(100), Num(350)}
    ELSE IF f \in {"current_ratio_direct", "debt_ratio_direct"} THEN {Null}
    ELSE IF f \in {"revenue", "total_assets"} THEN {Null, Num(1000), Num(10000)}
    ELSE IF f \in {"total_liabilities", "total_equity"}
    THEN {Null, Num(-200), Num(0), Num(100), Num(1000)}
    ELSE IF f = "report_period" THEN {Null, Str(DateString)}
    ELSE IF f = "report_year" THEN {Null, Str(YearString)}
    ELSE {Null, Num(100), Num(1000)}

AiNums ==
    {-10000, -1050, -300, -10, -5, 0, 5, 10, 11, 40, 100, 101, 300, 999, 1000,
     1050, 10000, 2024}

\* the JSON values the model can put under a key: absent, null, a number, a
\* number or a null-like word as text, a list; a date only under report_period
AiRaw(k) ==
    {Missing, Null, Obj} \cup {Num(n) : n \in AiNums}
    \cup {Str(cs) : cs \in Sentinels}
    \cup {Str(<<" ">>), Str(<<" ", "4", "0", " ">>), Str(<<"3", "0", "0">>),
          Str(<<"-", "3", "0", "0">>), Str(YearString)}
    \cup (IF k = "report_period" THEN {Str(DateString)} ELSE {})

InitMerge ==
    /\ pc = "premerge"
    /\ \E k \in AiKeys :
         \E cur \in BaseVals(field_map[k]), raw \in AiRaw(k) :
            /\ data = [ExtractedFinancials EXCEPT ![field_map[k]] = cur]
            /\ ai_data = [NoAiData EXCEPT ![k] = raw]
    /\ data0 = ExtractedFinancials
    /\ overrode = {}
    /\ IdleCompute /\ IdleSave /\ IdleFilter /\ IdleRun /\ IdlePdf

\* merge_ai_extracted_data(data, ai_data)
Merge ==
    /\ pc = "premerge"
    /\ data0' = data
    /\ data' = merge_ai_extracted_data(data, ai_data)
    /\ overrode' = Overridden(data, ai_data)
    /\ pc' = "merged"
    /\ UNCHANGED <<ai_data, metrics, saveVars, probe, run, pdfVars>>

NextMerge == Merge

SpecMerge == InitMerge /\ [][NextMerge]_vars

----------------------------------------------------------------------------
(* Claims on merge_ai_extracted_data.                                      *)

\* the AI value under key k as a float, Null when it has none
AiValue(k) == _to_float(ai_data[k])

Replaced(k) == k \in overrode /\ data[field_map[k]] = AiValue(k)

Kept(k) == k \notin overrode /\ data[field_map[k]] = data0[field_map[k]]

BaseNonZero(k) == data0[field_map[k]].t = "num" /\ data0[field_map[k]].n # 0

InPct(x) == 0 <= x /\ x <= 100

\* C7: a percentage-typed field whose base value is present and non-zero is
\* replaced by the AI value if and only if the base lies outside [0, 100] and
\* the AI value lies inside [0, 100]; otherwise it keeps the base value.
C7_PercentOverride ==
    pc = "merged" =>
       \A k \in PctKeys :
          BaseNonZero(k) =>
             IF /\ ~IsNone(AiValue(k))
                /\ ~InPct(data0[field_map[k]].n)
                /\ InPct(AiValue(k).n)
             THEN Replaced(k)
             ELSE Kept(k)

\* C7 witness: base 350 with AI 40 has become 40
C7_Witness ==
    /\ pc = "merged"
    /\ data0.gross_margin_direct = Num(350)
    /\ ai_data.gross_margin = Num(40)
    /\ data.gross_margin_direct = Num(40)

AmountKeys == AiKeys \ (PctKeys \cup {"report_period", "report_year"})

\* C8 as stated: an amount-typed field whose base value is present and non-zero,
\* with the AI value present, is replaced if and only if AI / base >= 10 or
\* AI / base <= 0.1.
C8_RatioOverride ==
    pc = "merged" =>
       \A k \in AmountKeys :
          (BaseNonZero(k) /\ ~IsNone(AiValue(k))) =>
             LET b == data0[field_map[k]].n
                 a == AiValue(k).n
             IN  IF RatLe(Rat(10, 1), Rat(a, b)) \/ RatLe(Rat(a, b), Rat(1, 10))
                 THEN Replaced(k)
                 ELSE Kept(k)

\* C8 amended: such a field is replaced if and only if the AI value is non-zero
\* and the magnitude |AI / base| is at least 10 or at most 0.1; an AI value of
\* zero, or any other ratio, leaves the base unchanged.
C8_MagnitudeOverride ==
    pc = "merged" =>
       \A k \in AmountKeys :
          (BaseNonZero(k) /\ ~IsNone(AiValue(k))) =>
             LET b == Abs(data0[field_map[k]].n)
                 a == Abs(AiValue(k).n)
             IN  IF a # 0 /\ (RatLe(Rat(10, 1), Rat(a, b)) \/ RatLe(Rat(a, b), Rat(1, 10)))
                 THEN Replaced(k)
                 ELSE Kept(k)

\* C8 witness: base 100 with AI 1050 has become 1050
C8_Witness ==
    /\ pc = "merged"
    /\ data0.net_profit = Num(100)
    /\ ai_data.net_profit = Num(1050)
    /\ data.net_profit = Num(1050)
    /\ "net_profit" \in overrode

\* the AI value is absent: missing key, null, or a null-like sentinel string
AiAbsent(k) ==
    \/ ai_data[k].t \in {"missing", "null"}
    \/ ai_data[k].t = "str" /\ Strip(ai_data[k].s) \in Sentinels

\* C9: for every mapped field, an absent AI value leaves the field unchanged,
\* and a present AI value (a number or a text that is no sentinel) with the base
\* absent or exactly zero is stored in the field, as given or as a float.
C9_AbsentAndEmptyBase ==
    pc = "merged" =>
       \A k \in AiKeys :
          /\ AiAbsent(k) => data[field_map[k]] = data0[field_map[k]]
          /\ (ai_data[k].t \in {"num", "str"} /\ ~AiAbsent(k)
              /\ (IsNone(data0[field_map[k]]) \/ data0[field_map[k]] = Num(0)))
                => \/ data[field_map[k]] = ai_data[k]
                   \/ /\ ~IsNone(AiValue(k))
                      /\ data[field_map[k]] = AiValue(k)

\* C30: the merge never replaces a non-null report_period that the pattern
\* stage inferred, whatever the AI result holds under report_period (a date
\* string, a number, null), and report_year, when set, stays a year string.
C30_PeriodKept ==
    pc = "merged" =>
        /\ ~IsNone(data0.report_period) => data.report_period = data0.report_period
        /\ ~IsNone(data.report_year) => data.report_year.t = "str"

----------------------------------------------------------------------------
(* Spec: one call of extract_financials_from_pdf(pdf_path, use_ai,         *)
(* force_ai): text extraction, pattern stage, AI stage.                    *)

\* the values the patterns find for the nine fields the AI trigger counts; a
\* matched total_liabilities differs from total_assets - total_equity
RegexDom(f) ==
    CASE f = "revenue" -> {Null, Num(5000)}
      [] f = "net_profit" -> {Null, Num(500)}
      [] f = "total_assets" -> {Null, Num(8000)}
      [] f = "total_equity" -> {Null, Num(3000), Num(8000)}
      [] f = "total_liabilities" -> {Null, Num(4000)}
      [] f = "current_assets" -> {Null, Num(2000)}
      [] f = "current_liabilities" -> {Null, Num(1000)}
      [] f = "gross_margin_direct" -> {Null, Num(35)}
      [] f = "roe_direct" -> {Null, Num(350)}
      [] OTHER -> {Null}

\* the two fallbacks without their "not result.<field>" tests
DerivedFallbacks_Overwrite(d) ==
    LET d1 == IF Truthy(d.total_assets) /\ Truthy(d.total_equity)
              THEN [d EXCEPT !.total_liabilities =
                               Num(d.total_assets.n - d.total_equity.n)]
              ELSE d
    IN  IF Truthy(d1.total_assets) /\ Truthy(d1.total_liabilities)
        THEN [d1 EXCEPT !.total_equity =
                          Num(d1.total_assets.n - d1.total_liabilities.n)]
        ELSE d1

\* lines 270-272 and 299-301: the two derived fallbacks, in this order
DerivedFallbacks(d) ==
    LET d1 == IF ~Truthy(d.total_liabilities) /\ Truthy(d.total_assets)
                 /\ Truthy(d.total_equity)
              THEN [d EXCEPT !.total_liabilities =
                               Num(d.total_assets.n - d.total_equity.n)]
              ELSE d
    IN  IF ~Truthy(d1.total_equity) /\ Truthy(d1.total_assets)
           /\ Truthy(d1.total_liabilities)
        THEN [d1 EXCEPT !.total_equity =
                          Num(d1.total_assets.n - d1.total_liabilities.n)]
        ELSE d1

\* extracted_count: the populated ones of the nine counted fields
extracted_count(d) ==
    Cardinality({f \in {"revenue", "net_profit", "total_assets", "total_equity",
                        "gross_margin_direct", "roe_direct", "total_liabilities",
                        "current_assets", "current_liabilities"} : ~IsNone(d[f])})

\* key_missing: the missing ones of the seven core fields
key_missing(d) ==
    Cardinality({f \in {"revenue", "net_profit", "total_assets", "total_liabilities",
                        "total_equity", "current_assets", "current_liabilities"} :
                    IsNone(d[f])})

AiTriggered(d) == extracted_count(d) < 8 \/ key_missing(d) >= 3

\* dicts the model can answer with: {}, one overriding amount, a dict with a
\* ratio, a date and a sentinel
AiDicts ==
    {NoAiData,
     [NoAiData EXCEPT !["revenue"] = Num(60000)],
     [NoAiData EXCEPT !["roe"] = Num(12), !["report_period"] = Str(DateString),
                      !["total_equity"] = Str(<<"-", "-">>)]}

\* what the HTTP call and json.loads give: an HTTP error status, another
\* exception, a body without text, text that is no JSON, or a JSON value
AiResponses ==
    [kind : {"http_error", "exception", "no_text", "bad_json"},
     jt : {"none"}, truthy : {FALSE}, d : {NoAiData}]
    \cup [kind : {"json"}, jt : {"dict"}, truthy : {TRUE}, d : AiDicts \ {NoAiData}]
    \cup [kind : {"json"}, jt : {"dict"}, truthy : {FALSE}, d : {NoAiData}]
    \cup [kind : {"json"}, jt : {"list", "number"}, truthy : BOOLEAN, d : {NoAiData}]
    \cup [kind : {"json"}, jt : {"null"}, truthy : {FALSE}, d : {NoAiData}]

EmptyDict == [kind |-> "json", jt |-> "dict", truthy |-> FALSE, d |-> NoAiData]

\* extract_financials_with_ai(text, raise_on_error=...) once the key is present:
\* [raised, err, v]
extract_financials_with_ai(resp, raise_on_error) ==
    IF resp.kind = "no_text" THEN [raised |-> FALSE, err |-> "", v |-> EmptyDict]
    ELSE IF resp.kind = "json" THEN [raised |-> FALSE, err |-> "", v |-> resp]
    ELSE IF raise_on_error
    THEN [raised |-> TRUE,
          err |-> CASE resp.kind = "http_error" -> "qwen_http"
                    [] resp.kind = "bad_json" -> "qwen_json_parse_error"
                    [] OTHER -> "qwen_exception",
          v |-> EmptyDict]
    ELSE [raised |-> FALSE, err |-> "", v |-> EmptyDict]

\* what the caller of extract_financials_with_ai holds: an empty dict, another
\* falsy value, a non-empty dict, or a truthy value that is no dict
AiOut(v) ==
    IF v.jt = "dict" THEN (IF v.truthy THEN "dict" ELSE "empty")
    ELSE IF v.truthy THEN "nonobject" ELSE "falsy"

Init ==
    /\ pc = "start"
    /\ run \in [use_ai : BOOLEAN, force_ai : BOOLEAN, has_key : BOOLEAN,
                pdf : {"no_file", "no_text", "text"}, ai_calls : {0},
                ai_out : {"not_called"}, ai_enhanced : {FALSE}, error : {""}]
    /\ data = ExtractedFinancials
    /\ IdleMerge /\ IdleCompute /\ IdleSave /\ IdleFilter /\ IdlePdf

\* lines 60-65: extract_pdf_text gives "" for a missing file and for a PDF with
\* no usable text; an empty text returns ExtractedFinancials() at once
ExtractText ==
    /\ pc = "start"
    /\ pc' = IF run.pdf = "text" THEN "fields" ELSE "returned"
    /\ UNCHANGED <<data, mergeVars, metrics, saveVars, probe, run, pdfVars>>

\* lines 67-298: what the patterns match
FieldExtract ==
    /\ pc = "fields"
    /\ \E rev \in RegexDom("revenue"), np \in RegexDom("net_profit"),
          ta \in RegexDom("total_assets"), te \in RegexDom("total_equity"),
          tl \in RegexDom("total_liabilities"), ca \in RegexDom("current_assets"),
          cl \in RegexDom("current_liabilities"),
          gm \in RegexDom("gross_margin_direct"), roe \in RegexDom("roe_direct") :
          data' = [ExtractedFinancials EXCEPT
                      !.revenue = rev, !.net_profit = np, !.total_assets = ta,
                      !.total_equity = te, !.total_liabilities = tl,
                      !.current_assets = ca, !.current_liabilities = cl,
                      !.gross_margin_direct = gm, !.roe_direct = roe]
    /\ pc' = "derive"
    /\ UNCHANGED <<mergeVars, metrics, saveVars, probe, run, pdfVars>>

\* lines 270-272 and 299-301: the derived fallbacks on the matched values (no
\* pattern between the two assigns one of the three fields)
Derive ==
    /\ pc = "derive"
    /\ data' = DerivedFallbacks(data)
    /\ pc' = "ai"
    /\ UNCHANGED <<mergeVars, metrics, saveVars, probe, run, pdfVars>>

\* line 305 false: use_ai is off
ReturnWithoutAi ==
    /\ pc = "ai"
    /\ ~run.use_ai
    /\ pc' = "returned"
    /\ UNCHANGED <<data, mergeVars, metrics, saveVars, probe, run, pdfVars>>

\* lines 306-310: forced mode without a key
ForcedNoKey ==
    /\ pc = "ai"
    /\ run.use_ai /\ run.force_ai /\ ~run.has_key
    /\ pc' = "raised"
    /\ run' = [run EXCEPT !.error = "ai_required_no_api_key"]
    /\ UNCHANGED <<data, mergeVars, metrics, saveVars, probe, pdfVars>>

\* lines 311-320: forced mode with a key; a list or a number that is truthy
\* reaches merge_ai_extracted_data, whose ai_data.get raises AttributeError
ForcedAi ==
    /\ pc = "ai"
    /\ run.use_ai /\ run.force_ai /\ run.has_key
    /\ \E resp \in AiResponses :
         LET r == extract_financials_with_ai(resp, TRUE)
         IN  IF r.raised
             THEN /\ pc' = "raised"
                  /\ run' = [run EXCEPT !.ai_calls = @ + 1, !.ai_out = "raised",
                                        !.error = r.err]
                  /\ UNCHANGED <<data, mergeVars>>
             ELSE IF ~r.v.truthy
             THEN /\ pc' = "raised"
                  /\ run' = [run EXCEPT !.ai_calls = @ + 1, !.ai_out = AiOut(r.v),
                                        !.error = "ai_extraction_empty"]
                  /\ UNCHANGED <<data, mergeVars>>
             ELSE IF r.v.jt # "dict"
             THEN /\ pc' = "raised"
                  /\ run' = [run EXCEPT !.ai_calls = @ + 1, !.ai_out = AiOut(r.v),
                                        !.error = "AttributeError"]
                  /\ UNCHANGED <<data, mergeVars>>
             ELSE /\ pc' = "returned"
                  /\ run' = [run EXCEPT !.ai_calls = @ + 1, !.ai_out = AiOut(r.v),
                                        !.ai_enhanced = TRUE]
                  /\ data0' = data
                  /\ ai_data' = r.v.d
                  /\ data' = merge_ai_extracted_data(data, r.v.d)
                  /\ overrode' = Overridden(data, r.v.d)
    /\ UNCHANGED <<metrics, saveVars, probe, pdfVars>>

\* lines 322-355 when the trigger is not met or no key is configured
BestEffortSkip ==
    /\ pc = "ai"
    /\ run.use_ai /\ ~run.force_ai
    /\ ~AiTriggered(data) \/ ~run.has_key
    /\ pc' = "returned"
    /\ UNCHANGED <<data, mergeVars, metrics, saveVars, probe, run, pdfVars>>

\* the enhancement pass without the handler of lines 352-353
BestEffortAi_Uncaught ==
    /\ pc = "ai"
    /\ run.use_ai /\ ~run.force_ai
    /\ AiTriggered(data) /\ run.has_key
    /\ \E resp \in AiResponses :
         LET r == extract_financials_with_ai(resp, FALSE)
         IN  IF ~r.v.truthy
             THEN /\ pc' = "returned"
                  /\ run' = [run EXCEPT !.ai_calls = @ + 1, !.ai_out = AiOut(r.v)]
                  /\ UNCHANGED <<data, mergeVars>>
             ELSE IF r.v.jt # "dict"
             THEN /\ pc' = "raised"
                  /\ run' = [run EXCEPT !.ai_calls = @ + 1, !.ai_out = AiOut(r.v),
                                        !.error = "AttributeError"]
                  /\ UNCHANGED <<data, mergeVars>>
             ELSE /\ pc' = "returned"
                  /\ run' = [run EXCEPT !.ai_calls = @ + 1, !.ai_out = AiOut(r.v),
                                        !.ai_enhanced = TRUE]
                  /\ data0' = data
                  /\ ai_data' = r.v.d
                  /\ data' = merge_ai_extracted_data(data, r.v.d)
                  /\ overrode' = Overridden(data, r.v.d)
    /\ UNCHANGED <<metrics, saveVars, probe, pdfVars>>

\* lines 341-355: the enhancement pass. A falsy answer is not merged; a truthy
\* list or number makes ai_data.get raise AttributeError before any setattr,
\* which line 352 catches and prints; a dict is merged
BestEffortAi ==
    /\ pc = "ai"
    /\ run.use_ai /\ ~run.force_ai
    /\ AiTriggered(data) /\ run.has_key
    /\ \E resp \in AiResponses :
         LET r == extract_financials_with_ai(resp, FALSE)
         IN  IF ~r.v.truthy
             THEN /\ run' = [run EXCEPT !.ai_calls = @ + 1, !.ai_out = AiOut(r.v)]
                  /\ UNCHANGED <<data, mergeVars>>
             ELSE IF r.v.jt # "dict"
             THEN /\ run' = [run EXCEPT !.ai_calls = @ + 1, !.ai_out = AiOut(r.v)]
                  /\ UNCHANGED <<data, mergeVars>>
             ELSE /\ run' = [run EXCEPT !.ai_calls = @ + 1, !.ai_out = AiOut(r.v),
                                        !.ai_enhanced = TRUE]
                  /\ data0' = data
                  /\ ai_data' = r.v.d
                  /\ data' = merge_ai_extracted_data(data, r.v.d)
                  /\ overrode' = Overridden(data, r.v.d)
    /\ pc' = "returned"
    /\ UNCHANGED <<metrics, saveVars, probe, pdfVars>>

Next ==
    \/ ExtractText
    \/ FieldExtract
    \/ Derive
    \/ ReturnWithoutAi
    \/ ForcedNoKey
    \/ ForcedAi
    \/ BestEffortSkip
    \/ BestEffortAi

Spec == Init /\ [][Next]_vars

----------------------------------------------------------------------------
(* Claims on extract_financials_from_pdf.                                  *)

\* C10: in forced-AI mode (use_ai and force_ai set) the call never returns a
\* result without the AI extractor having been invoked, an empty text included.
C10_ForcedAlwaysInvokes ==
    (pc = "returned" /\ run.use_ai /\ run.force_ai) => run.ai_calls >= 1

\* C11: in non-forced mode the call never raises, whatever the AI stage does
\* (no key, HTTP error, text that is no JSON, JSON that is no object, a failing
\* merge); and when the AI extractor was not called or gave back an empty dict
\* (its failures included), the struct returned is the pattern stage's struct.
C11_BestEffortNeverRaises ==
    /\ [](~run.force_ai => pc # "raised")
    /\ [][(pc = "ai" /\ ~run.force_ai /\ run'.ai_out \in {"not_called", "empty"})
            => data' = data]_vars

C11_Witness ==
    /\ pc = "returned" /\ run.use_ai /\ ~run.force_ai
    /\ run.ai_calls = 1 /\ run.ai_out = "empty"
    /\ ~IsNone(data.revenue)

\* C24: total_liabilities is set to total_assets - total_equity only when no
\* pattern matched it and both others were matched; total_equity is set to
\* total_assets - total_liabilities only when no pattern matched it and both
\* others are present; a matched value is never overwritten by a derived one,
\* and when a field is derived total_assets = total_liabilities + total_equity.
C24_DerivedFallbacks ==
    [][pc = "derive" =>
         /\ data'.total_liabilities # data.total_liabilities =>
                /\ IsNone(data.total_liabilities)
                /\ ~IsNone(data.total_assets) /\ ~IsNone(data.total_equity)
                /\ data'.total_liabilities =
                       Num(data.total_assets.n - data.total_equity.n)
         /\ data'.total_equity # data.total_equity =>
                /\ IsNone(data.total_equity)
                /\ ~IsNone(data.total_assets) /\ ~IsNone(data.total_liabilities)
                /\ data'.total_equity =
                       Num(data.total_assets.n - data.total_liabilities.n)
         /\ \A f \in Fields : ~IsNone(data[f]) => data'[f] = data[f]
         /\ data' # data =>
                data'.total_assets.n =
                    data'.total_liabilities.n + data'.total_equity.n]_vars

\* total_liabilities 5000 is no matched value: it is 8000 - 3000
C24_Witness ==
    /\ pc = "ai"
    /\ data.total_assets = Num(8000) /\ data.total_equity = Num(3000)
    /\ data.total_liabilities = Num(5000)

\* the struct as the pattern stage left it: a merge keeps it in data0
PatternStruct == IF run.ai_enhanced THEN data0 ELSE data

\* the nine key fields and the seven core fields of the trigger
KeyFields9 ==
    {"revenue", "net_profit", "total_assets", "total_liabilities",
     "total_equity", "current_assets", "current_liabilities",
     "gross_margin_direct", "roe_direct"}

CoreFields7 == KeyFields9 \ {"gross_margin_direct", "roe_direct"}

\* fewer than 8 of the 9 key fields populated, or at least 3 of the 7 core
\* fields missing
ThresholdMet(d) ==
    \/ Cardinality({f \in KeyFields9 : ~IsNone(d[f])}) < 8
    \/ Cardinality({f \in CoreFields7 : IsNone(d[f])}) >= 3

\* C23: in non-forced mode, with use_ai set and a credential configured, the
\* AI extractor is invoked exactly when fewer than 8 of the 9 key fields are
\* populated or at least 3 of the 7 core fields are missing; it is never
\* invoked when use_ai is false, when no credential is configured or when
\* neither threshold is met, and it is invoked at most once per call.
C23_AiTriggering ==
    /\ run.ai_calls <= 1
    /\ (~run.force_ai /\ (~run.use_ai \/ ~run.has_key)) => run.ai_calls = 0
    /\ (pc = "returned" /\ ~run.force_ai /\ run.use_ai /\ run.has_key) =>
           (run.ai_calls = 1 <=> ThresholdMet(PatternStruct))

----------------------------------------------------------------------------
(* Texts of core/pdf_text.py. A text is a sequence of runs [c, n]: n >= 1   *)
(* consecutive characters of class c. The classes are those the code tells  *)
(* apart:                                                                   *)
(*   "a"   ASCII letter            "9"   ASCII digit                        *)
(*   " "   space                   "nl"  one of \n \r \t                    *)
(*   "p"   one of .,;:!?$%()-      "#"   other printable ASCII              *)
(*   "cjk" CJK ideograph           "u"   other non-ASCII, not alphanumeric  *)
(*   "c0"  code point < 32, no whitespace (\x00 .. \x08)                    *)
(*   "cs"  code point < 32, whitespace, none of \n \r \t (\x0b \x0c \x1c..) *)
(*   "cid" the five characters "(cid:"                                      *)

CharClasses == {"a", "9", " ", "nl", "p", "#", "cjk", "u", "c0", "cs", "cid"}

Run(c, n) == [c |-> c, n |-> n]

Width(c) == IF c = "cid" THEN 5 ELSE 1

\* c.isalnum() or c.isspace() or _is_cjk(c) or c in ".,;:!?$%()-..."
ReadableClasses == {"a", "9", " ", "nl", "p", "cjk", "cs", "cid"}

\* ord(c) < 32 and c not in ("\n", "\r", "\t")
CtrlClasses == {"c0", "cs"}

\* str.isspace
SpaceClasses == {" ", "nl", "cs"}

\* " " <= ch <= "~"
AsciiClasses == {"a", "9", " ", "p", "#", "cid"}

Min(a, b) == IF a < b THEN a ELSE b

Max(a, b) == IF a > b THEN a ELSE b

RECURSIVE TextLen(_)
\* len(text)
TextLen(t) == IF t = <<>> THEN 0 ELSE Head(t).n * Width(Head(t).c) + TextLen(Tail(t))

RECURSIVE CountIn(_, _)
\* sum(1 for c in text if <c is of a class in S>)
CountIn(t, S) ==
    IF t = <<>> THEN 0
    ELSE (IF Head(t).c \in S THEN Head(t).n * Width(Head(t).c) ELSE 0)
         + CountIn(Tail(t), S)

RECURSIVE CidCount(_)
\* text.count("(cid:")
CidCount(t) ==
    IF t = <<>> THEN 0
    ELSE (IF Head(t).c = "cid" THEN Head(t).n ELSE 0) + CidCount(Tail(t))

\* the first k characters of a run; a cut marker leaves "(" and letters
RunPrefix(r, k) ==
    IF k >= r.n * Width(r.c) THEN <<r>>
    ELSE IF r.c # "cid" THEN <<Run(r.c, k)>>
    ELSE LET full == k \div 5
             rest == k % 5
         IN  (IF full > 0 THEN <<Run("cid", full)>> ELSE <<>>)
             \o (IF rest > 0 THEN <<Run("p", 1)>> ELSE <<>>)
             \o (IF rest > 1 THEN <<Run("a", rest - 1)>> ELSE <<>>)

RECURSIVE Prefix(_, _)
\* text[:k]
Prefix(t, k) ==
    IF t = <<>> \/ k <= 0 THEN <<>>
    ELSE LET w == Head(t).n * Width(Head(t).c)
         IN  IF k >= w THEN <<Head(t)>> \o Prefix(Tail(t), k - w)
             ELSE RunPrefix(Head(t), k)

\* _is_garbled_text with the 100- and 200-character floors dropped
_is_garbled_text_NoFloor(text) ==
    IF text = <<>> THEN TRUE
    ELSE IF CidCount(text) > 10 THEN TRUE
    ELSE IF 2 * CountIn(text, ReadableClasses) < TextLen(text) THEN TRUE
    ELSE LET sample == Prefix(text, 5000)
             ctrl == CountIn(sample, CtrlClasses)
         IN  ctrl > 30 \/ 100 * ctrl > Max(1, TextLen(sample))

\* _is_garbled_text: readable / len(text) < 0.5 is 2 * readable < len(text),
\* ctrl / max(1, len(sample)) > 0.01 is 100 * ctrl > max(1, len(sample))
_is_garbled_text(text) ==
    IF text = <<>> THEN TRUE
    ELSE IF CidCount(text) > 10 THEN TRUE
    ELSE IF TextLen(text) > 100
            /\ 2 * CountIn(text, ReadableClasses) < TextLen(text) THEN TRUE
    ELSE LET sample == Prefix(text, 5000)
             ctrl == CountIn(sample, CtrlClasses)
         IN  TextLen(text) > 200
             /\ (ctrl > 30 \/ 100 * ctrl > Max(1, TextLen(sample)))

----------------------------------------------------------------------------
(* SpecGarbled: _is_garbled_text applied to texts of one or two runs whose  *)
(* lengths lie around the thresholds of the code.                           *)

GarbledCounts ==
    {1, 3, 10, 11, 30, 31, 50, 51, 100, 101, 199, 200, 250, 297, 470, 500,
     4990, 5000}

GarbledClasses == {"a", " ", "#", "cjk", "c0", "cs", "cid"}

GarbledTexts ==
    {<<>>}
    \cup {<<Run(c, n)>> : c \in GarbledClasses, n \in GarbledCounts}
    \cup {<<Run(c1, n1), Run(c2, n2)>> :
             <<c1, c2>> \in {cc \in GarbledClasses \X GarbledClasses : cc[1] # cc[2]},
             <<n1, n2>> \in GarbledCounts \X GarbledCounts}

InitGarbled ==
    /\ pc = "garbled"
    /\ gprobe \in [pc : {"call"}, text : GarbledTexts, garbled : {FALSE}]
    /\ data = ExtractedFinancials
    /\ IdleMerge /\ IdleCompute /\ IdleSave /\ IdleFilter /\ IdleRun
    /\ IdleTx /\ IdleOcr /\ IdlePick /\ IdleDates /\ IdleBg

IsGarbledCall ==
    /\ gprobe.pc = "call"
    /\ gprobe' = [gprobe EXCEPT !.pc = "done",
                                !.garbled = _is_garbled_text(gprobe.text)]
    /\ UNCHANGED <<pc, data, mergeVars, metrics, saveVars, probe, run,
                   tx, ocr, pick, dates, bgVars>>

NextGarbled == IsGarbledCall

SpecGarbled == InitGarbled /\ [][NextGarbled]_vars

\* the characters a well-formed ASCII text is made of
WellFormedAscii == {"a", "9", " ", "nl", "p"}

\* C20: a text is classified garbled exactly when it is empty, or holds more
\* than 10 CID markers, or is longer than 100 characters with fewer than 50%
\* readable characters, or is longer than 200 characters with more than 30
\* control characters, or more than 1% of them, in its first 5000 characters;
\* so a text with more than 10 CID markers is garbled and a 500-character
\* well-formed ASCII text without CID markers is not.
C20_GarbledExactly ==
    gprobe.pc = "done" =>
        LET t == gprobe.text
            first == Prefix(t, 5000)
            ctrl == CountIn(first, CtrlClasses)
        IN  /\ gprobe.garbled <=>
                  \/ t = <<>>
                  \/ CidCount(t) > 10
                  \/ TextLen(t) > 100 /\ 2 * CountIn(t, ReadableClasses) < TextLen(t)
                  \/ TextLen(t) > 200 /\ (ctrl > 30 \/ 100 * ctrl > TextLen(first))
            /\ CidCount(t) > 10 => gprobe.garbled
            /\ (TextLen(t) = 500 /\ \A i \in 1..Len(t) : t[i].c \in WellFormedAscii)
                   => ~gprobe.garbled

C20_Witness ==
    /\ gprobe.pc = "done" /\ gprobe.garbled
    /\ gprobe.text = <<Run("c0", 31), Run("a", 5000)>>
    /\ CidCount(gprobe.text) = 0

----------------------------------------------------------------------------
(* SpecText: one call of extract_pdf_text(path, max_pages, max_chars,       *)
(* fast_only): the existence test, the text-layer readers in the order of   *)
(* the code, the OCR fallback and the truncation.                           *)

RECURSIVE TextLStrip(_)
TextLStrip(t) ==
    IF t # <<>> /\ Head(t).c \in SpaceClasses THEN TextLStrip(Tail(t)) ELSE t

RECURSIVE TextRStrip(_)
TextRStrip(t) ==
    IF t # <<>> /\ t[Len(t)].c \in SpaceClasses
    THEN TextRStrip(SubSeq(t, 1, Len(t) - 1)) ELSE t

\* str.strip()
TextStrip(t) == TextRStrip(TextLStrip(t))

\* _strip_ctrl: ch if ord(ch) >= 32 or ch in "\n\r\t" else " "
_strip_ctrl(t) ==
    [i \in 1..Len(t) |-> IF t[i].c \in CtrlClasses THEN Run(" ", t[i].n) ELSE t[i]]

\* _truncate cutting at max_chars without appending "\n..."
_truncate_NoMarker(t, max_chars) ==
    IF TextLen(t) > max_chars THEN Prefix(t, max_chars) ELSE t

\* _truncate: s[:max_chars] + "\n..." when len(s) > max_chars
_truncate(t, max_chars) ==
    IF TextLen(t) > max_chars
    THEN Prefix(t, max_chars) \o <<Run("nl", 1), Run("p", 3)>>
    ELSE t

\* PDF_TEXT_MIN_CHARS_FOR_NO_OCR, by default
min_chars == 800

\* too_short: len(s0) < min_chars or digit_cnt < 20, s0 the stripped out
too_short(out) ==
    LET s0 == TextStrip(out)
    IN  TextLen(s0) < min_chars \/ CountIn(s0, {"9"}) < 20

\* the guard of a later reader, always true
NeedsReader_Always(out) == TRUE

\* "if not out or _is_garbled_text(out)": the guard of every later reader
NeedsReader(out) == out = <<>> \/ _is_garbled_text(out)

\* "if txt and not _is_garbled_text(txt)": a reader's text is taken
Usable(txt) == txt # <<>> /\ ~_is_garbled_text(txt)

\* what a reader's pages join to: nothing, blank pages, a statement page, a
\* short page, CID-escaped text, text strewn with control characters, symbols,
\* a statement page with two stray control characters
ReaderTexts ==
    {<<>>,
     <<Run("nl", 3)>>,
     <<Run("a", 900), Run("9", 30), Run("nl", 1)>>,
     <<Run("a", 300), Run("9", 5)>>,
     <<Run("cid", 11), Run("9", 22), Run("p", 11)>>,
     <<Run("c0", 40), Run("a", 900), Run("9", 30)>>,
     <<Run("#", 600)>>,
     <<Run("a", 900), Run("c0", 2), Run("9", 30)>>}

\* a reader raises (not installed, broken file) or gives a text
ReaderOutcomes ==
    {[raised |-> TRUE, t |-> <<>>]} \cup [raised : {FALSE}, t : ReaderTexts]

\* what _extract_with_ocr gives once the engine runs, with the answer of
\* _looks_like_useful_english on it
OcrResults ==
    {[t |-> <<>>, en |-> FALSE],
     [t |-> <<Run("a", 700), Run("9", 40)>>, en |-> TRUE],
     [t |-> <<Run("#", 400), Run("a", 100)>>, en |-> TRUE],
     [t |-> <<Run("#", 400), Run("a", 100)>>, en |-> FALSE]}

\* lines 57-60 of _extract_with_ocr: without ENABLE_OCR=1 and with
\* AUTO_OCR_FALLBACK=0 nothing runs; otherwise the engine may run
OcrMayRun(enable_ocr, auto_fallback) == enable_ocr \/ auto_fallback

TextStages == {"pypdf", "pdfplumber", "pdfminer", "fitz", "pypdf_again",
               "fast_fitz", "fast_pypdf"}

InitText ==
    /\ pc = "text"
    /\ tx \in [pc : {"start"}, exists : BOOLEAN, fast_only : BOOLEAN,
               enable_ocr : BOOLEAN, auto_fallback : BOOLEAN,
               max_chars : {0, 500, 80000}, out : {<<>>}, by : {""},
               ran : {<<>>}, layer_out : {<<>>}, ocr_called : {FALSE},
               engine_ran : {FALSE}, ocr_en : {FALSE}, result : {<<>>}, raised : {FALSE}]
    /\ data = ExtractedFinancials
    /\ IdleMerge /\ IdleCompute /\ IdleSave /\ IdleFilter /\ IdleRun
    /\ IdleOcr /\ IdlePick /\ IdleDates /\ IdleGarbled /\ IdleBg

textOthers == <<pc, data, mergeVars, metrics, saveVars, probe, run,
                ocr, pick, dates, gprobe, bgVars>>

\* lines 280-282: a path that does not exist returns ""
NotFound ==
    /\ tx.pc = "start" /\ ~tx.exists
    /\ tx' = [tx EXCEPT !.pc = "done", !.result = <<>>]
    /\ UNCHANGED textOthers

\* lines 432-450: page_indices are chosen, then the branch on fast_only
PickPages ==
    /\ tx.pc = "start" /\ tx.exists
    /\ tx' = [tx EXCEPT !.pc = IF tx.fast_only THEN "fast_fitz" ELSE "pypdf"]
    /\ UNCHANGED textOthers

\* a reader that strips control characters and takes only a usable text
\* (lines 452-472, 478-493, 521-536)
ReadStripped(name, next, o) ==
    LET txt == _strip_ctrl(TextStrip(o.t))
    IN  tx' = [tx EXCEPT !.pc = next,
                         !.ran = Append(@, name),
                         !.out = IF ~o.raised /\ Usable(txt) THEN txt ELSE @,
                         !.by = IF ~o.raised /\ Usable(txt) THEN name ELSE @]

\* a reader that takes only a usable text, control characters kept
\* (lines 563-571, 577-596, 602-616)
ReadPlain(name, next, o) ==
    LET txt == TextStrip(o.t)
    IN  tx' = [tx EXCEPT !.pc = next,
                         !.ran = Append(@, name),
                         !.out = IF ~o.raised /\ Usable(txt) THEN txt ELSE @,
                         !.by = IF ~o.raised /\ Usable(txt) THEN name ELSE @]

Skip(next) == tx' = [tx EXCEPT !.pc = next]

\* lines 452-474
FastFitz ==
    /\ tx.pc = "fast_fitz"
    /\ \E o \in ReaderOutcomes : ReadStripped("fitz", "fast_pypdf", o)
    /\ UNCHANGED textOthers

\* lines 477-495
FastPypdf ==
    /\ tx.pc = "fast_pypdf"
    /\ IF NeedsReader(tx.out)
       THEN \E o \in ReaderOutcomes : ReadStripped("pypdf", "fast_ocr", o)
       ELSE Skip("fast_ocr")
    /\ UNCHANGED textOthers

\* lines 521-538
Pypdf ==
    /\ tx.pc = "pypdf"
    /\ \E o \in ReaderOutcomes : ReadStripped("pypdf", "pdfplumber", o)
    /\ UNCHANGED textOthers

\* lines 541-559: whatever pdfplumber read becomes out, garbled or not
Pdfplumber ==
    /\ tx.pc = "pdfplumber"
    /\ IF NeedsReader(tx.out)
       THEN \E o \in ReaderOutcomes :
              LET texts == IF o.raised THEN <<>> ELSE o.t
              IN  tx' = [tx EXCEPT
                           !.pc = "pdfminer",
                           !.ran = Append(@, "pdfplumber"),
                           !.out = IF texts # <<>>
                                   THEN _strip_ctrl(TextStrip(texts)) ELSE @,
                           !.by = IF texts # <<>> THEN "pdfplumber" ELSE @]
       ELSE Skip("pdfminer")
    /\ UNCHANGED textOthers

\* lines 562-573
Pdfminer ==
    /\ tx.pc = "pdfminer"
    /\ IF NeedsReader(tx.out)
       THEN \E o \in ReaderOutcomes : ReadPlain("pdfminer", "fitz", o)
       ELSE Skip("fitz")
    /\ UNCHANGED textOthers

\* lines 576-598
Fitz ==
    /\ tx.pc = "fitz"
    /\ IF NeedsReader(tx.out)
       THEN \E o \in ReaderOutcomes : ReadPlain("fitz", "pypdf_again", o)
       ELSE Skip("pypdf_again")
    /\ UNCHANGED textOthers

\* lines 601-618
PypdfAgain ==
    /\ tx.pc = "pypdf_again"
    /\ IF NeedsReader(tx.out)
       THEN \E o \in ReaderOutcomes : ReadPlain("pypdf", "ocr", o)
       ELSE Skip("ocr")
    /\ UNCHANGED textOthers

\* the call of _extract_with_ocr and what is done with its text (lines
\* 510-514, 636-640), then "return _truncate(out)"
OcrAndReturn(r, engine) ==
    LET ocr_text == _strip_ctrl(r.t)
        taken == r.t # <<>> /\ (~_is_garbled_text(ocr_text) \/ r.en)
        out2 == IF taken THEN ocr_text ELSE tx.out
    IN  tx' = [tx EXCEPT !.pc = "done", !.layer_out = tx.out,
                         !.ocr_called = TRUE, !.engine_ran = engine,
                         !.out = out2, !.by = IF taken THEN "ocr" ELSE @,
                         !.ocr_en = taken /\ r.en,
                         !.result = _truncate(out2, tx.max_chars)]

ReturnText ==
    tx' = [tx EXCEPT !.pc = "done", !.layer_out = tx.out,
                     !.result = _truncate(tx.out, tx.max_chars)]

OcrStep(trigger) ==
    IF trigger
    THEN IF OcrMayRun(tx.enable_ocr, tx.auto_fallback)
         THEN \E engine \in BOOLEAN :
                IF engine THEN \E r \in OcrResults : OcrAndReturn(r, TRUE)
                ELSE OcrAndReturn([t |-> <<>>, en |-> FALSE], FALSE)
         ELSE OcrAndReturn([t |-> <<>>, en |-> FALSE], FALSE)
    ELSE ReturnText

\* lines 497-518
FastOcr ==
    /\ tx.pc = "fast_ocr"
    /\ OcrStep(tx.out = <<>> \/ _is_garbled_text(tx.out) \/ too_short(tx.out))
    /\ UNCHANGED textOthers

\* lines 620-642
FinalOcr ==
    /\ tx.pc = "ocr"
    /\ OcrStep(_is_garbled_text(tx.out) \/ too_short(tx.out))
    /\ UNCHANGED textOthers

NextText ==
    \/ NotFound
    \/ PickPages
    \/ FastFitz
    \/ FastPypdf
    \/ Pypdf
    \/ Pdfplumber
    \/ Pdfminer
    \/ Fitz
    \/ PypdfAgain
    \/ FastOcr
    \/ FinalOcr

SpecText == InitText /\ [][NextText]_vars

----------------------------------------------------------------------------
(* Claims on extract_pdf_text.                                              *)

\* C12: for a path that does not exist the call fails with a NotFoundError at
\* once: no reader and no fallback runs and no text value is returned.
C12_MissingFileFails ==
    (tx.pc = "done" /\ ~tx.exists) =>
        tx.raised /\ tx.ran = <<>> /\ ~tx.ocr_called

\* C14: a later text-layer reader is attempted only if the output accumulated
\* so far is empty or judged garbled; once out holds a non-empty, non-garbled
\* text no later text-layer reader runs and none replaces it.
C14_CascadeOrder ==
    [][tx.pc \in TextStages =>
          /\ (tx'.ran # tx.ran /\ tx.ran # <<>>) =>
                 (tx.out = <<>> \/ _is_garbled_text(tx.out))
          /\ (tx.out # <<>> /\ ~_is_garbled_text(tx.out)) =>
                 (tx'.ran = tx.ran /\ tx'.out = tx.out /\ tx'.by = tx.by)]_vars

\* the second reader's text stood although three more stages followed
C14_Witness ==
    /\ tx.pc = "done" /\ ~tx.fast_only
    /\ tx.ran = <<"pypdf", "pdfplumber">>
    /\ tx.by = "pdfplumber" /\ ~_is_garbled_text(tx.out)

\* C15: when every text-layer stage came out empty or garbled, or the text is
\* too short (below the minimum character count or the minimum digit count),
\* the OCR fallback is invoked; but with fast_only set and OCR not explicitly
\* enabled the OCR engine is never run.
C15_OcrTrigger ==
    tx.pc = "done" /\ tx.exists =>
        /\ (tx.layer_out = <<>> \/ _is_garbled_text(tx.layer_out)
            \/ TextLen(TextStrip(tx.layer_out)) < min_chars
            \/ CountIn(TextStrip(tx.layer_out), {"9"}) < 20) => tx.ocr_called
        /\ (tx.fast_only /\ ~tx.enable_ocr) => ~tx.engine_ran

\* the truncation marker "\n..."
TruncationMarker == <<Run("nl", 1), Run("p", 3)>>

\* C21: for the extracted text s (out before the return) and the budget
\* max_chars, the call returns s unchanged when len(s) <= max_chars and
\* otherwise exactly the first max_chars characters of s followed by the
\* truncation marker; on every return path the result is never longer than
\* max_chars plus the length of the marker.
C21_Truncation ==
    tx.pc = "done" =>
        LET s == tx.out
            head == Prefix(s, tx.max_chars)
        IN  /\ TextLen(s) <= tx.max_chars => tx.result = s
            /\ TextLen(s) > tx.max_chars =>
                   /\ tx.result = head \o TruncationMarker
                   /\ TextLen(head) = tx.max_chars
                   /\ \A i \in 1..(Len(head) - 1) : head[i] = s[i]
            /\ TextLen(tx.result) <= tx.max_chars + TextLen(TruncationMarker)

\* an OCR text of 740 characters returned under a budget of 500
C21_Witness ==
    /\ tx.pc = "done" /\ tx.by = "ocr" /\ tx.max_chars = 500
    /\ TextLen(tx.out) = 740 /\ TextLen(tx.result) = 504

\* C22: whichever stage supplies the result (a text-layer reader of the
\* fast_only or of the full path, or OCR), the returned text holds no
\* character below code point 32 other than newline, carriage return and tab.
C22_NoControlChars ==
    tx.pc = "done" => CountIn(tx.result, CtrlClasses) = 0

\* C26: a non-empty returned text is, before truncation, either judged
\* non-garbled, or OCR output that contains an English financial-statement
\* keyword; no garbled output of a text-layer reader is returned, in the
\* fast_only path and in the full path alike.
C26_NoGarbledReturned ==
    (tx.pc = "done" /\ tx.result # <<>>) =>
        \/ ~_is_garbled_text(tx.out)
        \/ tx.by = "ocr" /\ tx.ocr_en

----------------------------------------------------------------------------
(* SpecOcr: one call of _extract_with_ocr(path, max_pages). The options are *)
(* the environment variables, the faults are the statements that raise.     *)

\* the statements of _extract_with_ocr that can raise
FaultSites ==
    {"size_guard",          \* 66-71: float() of OCR_AUTO_MAX_PDF_MB, p.stat()
     "import_pytesseract",  \* 76
     "parse_options",       \* 79-86: int() of an OCR_* option
     "probe_open",          \* 128-131: import fitz, fitz.open
     "parse_auto_max",      \* 139: int() of OCR_AUTO_MAX_PAGECOUNT
     "probe_render",        \* 160, 164-166: both renderers fail on a probe page
     "render_open",         \* 224-232: import fitz, PIL, fitz.open
     "render_page",         \* 240-242: load_page, get_pixmap, frombytes
     "ocr_raises",          \* 94-102: every image_to_string attempt raises
     "pdf2image"}           \* 259-262: import pdf2image, convert_from_path

MaxFaults == 2

\* the handlers without the outermost try of lines 75-271
Handler_NoOuter(site) ==
    CASE site = "size_guard" -> "except_73"
      [] site = "probe_open" -> "except_217"
      [] site = "parse_auto_max" -> "except_140"
      [] site = "probe_render" -> "except_169"
      [] site = "render_open" -> "except_254"
      [] site = "render_page" -> "except_246"
      [] site = "pdf2image" -> "except_268"
      [] site = "ocr_raises" -> "except_246_268"
      [] OTHER -> "none"

\* the innermost except clause around each statement
Handler(site) ==
    CASE site = "size_guard" -> "except_73"
      [] site = "import_pytesseract" -> "except_270"
      [] site = "parse_options" -> "except_270"
      [] site = "probe_open" -> "except_217"
      [] site = "parse_auto_max" -> "except_140"
      [] site = "probe_render" -> "except_169"
      [] site = "render_open" -> "except_254"
      [] site = "render_page" -> "except_246"
      [] site = "pdf2image" -> "except_268"
      [] site = "ocr_raises" -> "except_246_268"
      [] OTHER -> "none"

\* OCR_AUTO_MAX_PAGECOUNT, by default and when it does not parse
auto_max_page_count == 300

\* OCR_MAX_PAGES and OCR_PROBE_PAGES, by default
ocr_max_pages == 10

ocr_probe_pages == 6

\* return "" (lines 60, 72, 145, 269, 271), or the exception leaving the call
ReturnEmpty == [ocr EXCEPT !.pc = "done", !.result = ""]

Propagate == [ocr EXCEPT !.pc = "done", !.raised = TRUE]

\* a statement at site raised: its handler takes over with state cont
OnFault(site, cont) == IF Handler(site) = "none" THEN Propagate ELSE cont

\* ocr_pages = min(max_pages, max(1, ocr_max_pages))
ocr_pages == Min(ocr.max_pages, Max(1, ocr_max_pages))

Range(a, b) == {i \in a..b : TRUE}

\* lines 148-152
ProbeCandidates ==
    LET step == Max(1, ocr.page_count \div Max(10, ocr_probe_pages + 2))
    IN  {c \in {1} \cup {1 + i * step : i \in 1..ocr_probe_pages} :
            1 <= c /\ c <= ocr.page_count}

\* lines 202-203: the probed pages whose score is >= 1.0, best first, at most
\* max(1, min(4, ocr_pages)) of them; the scores are the engine's doing
PickedChoices ==
    LET limit == Max(1, Min(4, ocr_pages))
    IN  {q \in UNION {[1..n -> ProbeCandidates] : n \in 0..limit} :
            \A i, j \in 1..Len(q) : i # j => q[i] # q[j]}

RECURSIVE Picked0(_, _)
\* lines 206-212: each picked page and the page after it, without repeats
Picked0(picked_1, acc) ==
    IF picked_1 = <<>> THEN acc
    ELSE LET p0 == Max(0, Head(picked_1) - 1)
             a1 == IF \E i \in 1..Len(acc) : acc[i] = p0 THEN acc ELSE Append(acc, p0)
             a2 == IF p0 + 1 < ocr.page_count /\ ~\E i \in 1..Len(a1) : a1[i] = p0 + 1
                   THEN Append(a1, p0 + 1) ELSE a1
         IN  Picked0(Tail(picked_1), a2)

SeqMin(q) == CHOOSE x \in {q[i] : i \in 1..Len(q)} : \A i \in 1..Len(q) : x <= q[i]

InitOcr ==
    /\ pc = "ocr"
    /\ ocr \in {o \in [pc : {"start"}, enable_ocr : BOOLEAN, auto_fallback : BOOLEAN,
                       big_file : BOOLEAN, auto_find : BOOLEAN, start_page : {1, 2},
                       page_count : {0, 3, 400}, max_pages : {1, 2},
                       faults : SUBSET FaultSites,
                       first_page : {1}, pages_to_ocr_0 : {<<>>}, pages : {{}},
                       texts : {FALSE}, result : {""}, raised : {FALSE}] :
                  Cardinality(o.faults) <= MaxFaults}
    /\ data = ExtractedFinancials
    /\ IdleMerge /\ IdleCompute /\ IdleSave /\ IdleFilter /\ IdleRun
    /\ IdleTx /\ IdlePick /\ IdleDates /\ IdleGarbled /\ IdleBg

ocrOthers == <<pc, data, mergeVars, metrics, saveVars, probe, run,
               tx, pick, dates, gprobe, bgVars>>

\* lines 57-74: the enable test and the file-size guard of auto fallback
OcrGuards ==
    /\ ocr.pc = "start"
    /\ ocr' = IF ~ocr.enable_ocr /\ ~ocr.auto_fallback THEN ReturnEmpty
              ELSE IF ~ocr.enable_ocr /\ ocr.auto_fallback
              THEN IF "size_guard" \in ocr.faults
                   THEN OnFault("size_guard", [ocr EXCEPT !.pc = "import"])
                   ELSE IF ocr.big_file THEN ReturnEmpty
                   ELSE [ocr EXCEPT !.pc = "import"]
              ELSE [ocr EXCEPT !.pc = "import"]
    /\ UNCHANGED ocrOthers

\* lines 75-89 and the test of line 126
OcrImport ==
    /\ ocr.pc = "import"
    /\ ocr' = IF "import_pytesseract" \in ocr.faults
              THEN OnFault("import_pytesseract", ReturnEmpty)
              ELSE IF "parse_options" \in ocr.faults
              THEN OnFault("parse_options", ReturnEmpty)
              ELSE LET first_page == Max(1, ocr.start_page)
                   IN  [ocr EXCEPT !.first_page = first_page,
                                   !.pc = IF ocr.auto_find /\ first_page = 1
                                          THEN "probe" ELSE "render"]
    /\ UNCHANGED ocrOthers

\* lines 126-218: the page-count guard and the probe of the sampled pages
OcrProbe ==
    /\ ocr.pc = "probe"
    /\ IF "probe_open" \in ocr.faults
       THEN ocr' = OnFault("probe_open", [ocr EXCEPT !.pc = "render"])
       ELSE IF ocr.page_count <= 0
       THEN ocr' = [ocr EXCEPT !.pc = "render"]
       ELSE IF "parse_auto_max" \in ocr.faults /\ Handler("parse_auto_max") = "none"
       THEN ocr' = Propagate
       ELSE IF ~ocr.enable_ocr /\ ocr.page_count > auto_max_page_count
       THEN ocr' = ReturnEmpty
       ELSE IF "probe_render" \in ocr.faults
       THEN ocr' = OnFault("probe_render", [ocr EXCEPT !.pc = "render"])
       ELSE IF "ocr_raises" \in ocr.faults
       THEN ocr' = OnFault("ocr_raises",
                           [ocr EXCEPT !.pc = "render",
                                       !.pages = {c - 1 : c \in ProbeCandidates}])
       ELSE \E picked_1 \in PickedChoices :
              ocr' = [ocr EXCEPT
                        !.pc = "render",
                        !.pages = {c - 1 : c \in ProbeCandidates},
                        !.pages_to_ocr_0 =
                            IF picked_1 = <<>> THEN <<>>
                            ELSE SubSeq(Picked0(picked_1, <<>>), 1,
                                        Min(Len(Picked0(picked_1, <<>>)),
                                            Max(1, ocr_pages))),
                        !.first_page =
                            IF picked_1 = <<>> THEN @ ELSE SeqMin(picked_1)]
    /\ UNCHANGED ocrOthers

\* lines 229-236
IterPages ==
    LET start_idx == Max(0, ocr.first_page - 1)
        end_idx == IF ocr.page_count > 0
                   THEN Min(ocr.page_count - 1, start_idx + ocr_pages - 1) ELSE -1
    IN  IF ocr.pages_to_ocr_0 # <<>>
        THEN {ocr.pages_to_ocr_0[i] : i \in 1..Len(ocr.pages_to_ocr_0)}
                 \cap Range(0, ocr.page_count - 1)
        ELSE Range(start_idx, end_idx)

\* lines 220-255: render with PyMuPDF and recognize page by page
OcrRender ==
    /\ ocr.pc = "render"
    /\ IF "render_open" \in ocr.faults
       THEN ocr' = OnFault("render_open", [ocr EXCEPT !.pc = "pdf2image"])
       ELSE IF "render_page" \in ocr.faults
       THEN ocr' = OnFault("render_page", [ocr EXCEPT !.pc = "pdf2image"])
       ELSE IF "ocr_raises" \in ocr.faults
       THEN ocr' = OnFault("ocr_raises",
                           [ocr EXCEPT !.pc = "pdf2image",
                                       !.pages = @ \cup IterPages])
       ELSE \E recognized \in {r \in BOOLEAN : r => IterPages # {}} :
              ocr' = IF recognized
                     THEN [ocr EXCEPT !.pc = "done", !.texts = TRUE,
                                      !.pages = @ \cup IterPages, !.result = "text"]
                     ELSE [ocr EXCEPT !.pc = "pdf2image",
                                      !.pages = @ \cup IterPages]
    /\ UNCHANGED ocrOthers

\* lines 261-262: the pages pdf2image converts
ConvertedPages ==
    LET last_page == Max(ocr.first_page, ocr.first_page + ocr_pages - 1)
    IN  Range(ocr.first_page - 1, Min(last_page, ocr.page_count) - 1)

\* lines 257-269: the same with pdf2image
OcrPdf2image ==
    /\ ocr.pc = "pdf2image"
    /\ IF "pdf2image" \in ocr.faults
       THEN ocr' = OnFault("pdf2image", ReturnEmpty)
       ELSE IF "ocr_raises" \in ocr.faults /\ ConvertedPages # {}
       THEN ocr' = OnFault("ocr_raises",
                           [ocr EXCEPT !.pc = "done", !.result = "",
                                       !.pages = @ \cup ConvertedPages])
       ELSE \E recognized \in {r \in BOOLEAN : r => ConvertedPages # {}} :
              ocr' = [ocr EXCEPT !.pc = "done", !.texts = recognized,
                                 !.pages = @ \cup ConvertedPages,
                                 !.result = IF recognized THEN "text" ELSE ""]
    /\ UNCHANGED ocrOthers

NextOcr == OcrGuards \/ OcrImport \/ OcrProbe \/ OcrRender \/ OcrPdf2image

SpecOcr == InitOcr /\ [][NextOcr]_vars

----------------------------------------------------------------------------
(* Claims on _extract_with_ocr.                                             *)

\* C16: OCR runs on no page when neither ENABLE_OCR nor the auto fallback is
\* on; and under auto fallback without ENABLE_OCR it runs on no page of a file
\* above the size limit, nor of a document with more pages than the page-count
\* limit, whatever OCR_AUTO_FIND and OCR_START_PAGE are.
C16_OcrGuards ==
    /\ (~ocr.enable_ocr /\ ~ocr.auto_fallback) => ocr.pages = {}
    /\ (~ocr.enable_ocr /\ ocr.auto_fallback /\ ocr.big_file
        /\ "size_guard" \notin ocr.faults) => ocr.pages = {}
    /\ (~ocr.enable_ocr /\ ocr.auto_fallback
        /\ ocr.page_count > auto_max_page_count) => ocr.pages = {}

\* C17: whichever statements fail (engine missing, probe or render failing,
\* the OCR call raising on every page, both renderers unavailable, an option
\* that does not parse), _extract_with_ocr returns a string, the empty one
\* when nothing was recognized, and raises nothing.
C17_OcrNeverRaises ==
    ocr.pc = "done" =>
        /\ ~ocr.raised
        /\ ocr.result \in {"", "text"}
        /\ ~ocr.texts => ocr.result = ""

C17_Witness ==
    /\ ocr.pc = "done" /\ ocr.result = "" /\ ~ocr.raised
    /\ ocr.faults = {"render_open", "ocr_raises"}
    /\ ocr.pages # {}

----------------------------------------------------------------------------
(* SpecPick: one call of _pick_pages_smart(page_count, k) on a document     *)
(* whose pages are of the kinds below.                                      *)

\* a page as page.get_text gives it: its text, whether one of the strong
\* English headers is in it, and how many of the nine English and of the
\* eleven Chinese keywords; load_page raises on a broken page
PreviewOf(kind) ==
    CASE kind = "blank" ->
           [raises |-> FALSE, t |-> <<>>, strong |-> FALSE, kw |-> 0, cn |-> 0]
      [] kind = "space" ->
           [raises |-> FALSE, t |-> <<Run("nl", 2), Run(" ", 4)>>,
            strong |-> FALSE, kw |-> 0, cn |-> 0]
      [] kind = "cjk" ->
           [raises |-> FALSE, t |-> <<Run("cjk", 400)>>,
            strong |-> FALSE, kw |-> 0, cn |-> 0]
      [] kind = "mixed" ->
           [raises |-> FALSE, t |-> <<Run("nl", 1), Run("cjk", 300), Run("9", 100)>>,
            strong |-> FALSE, kw |-> 0, cn |-> 2]
      [] kind = "ascii" ->
           [raises |-> FALSE, t |-> <<Run("a", 4000)>>,
            strong |-> FALSE, kw |-> 0, cn |-> 0]
      [] kind = "strong" ->
           [raises |-> FALSE, t |-> <<Run("a", 500), Run("9", 100), Run("u", 200)>>,
            strong |-> TRUE, kw |-> 3, cn |-> 0]
      [] OTHER ->
           [raises |-> TRUE, t |-> <<>>, strong |-> FALSE, kw |-> 0, cn |-> 0]

\* _score_preview with 0.0 for an empty preview
_score_preview_BlankZero(p) ==
    LET head == Prefix(TextStrip(p.t), 3000)
        pts == (IF p.strong THEN 50 ELSE 0) + 5 * p.kw + 5 * p.cn
    IN  IF head = <<>> THEN Rat(0, 1)
        ELSE Rat(pts * TextLen(head) + CountIn(head, AsciiClasses), TextLen(head))

\* _score_preview: -1.0 for an empty stripped text, else 50 for a strong
\* header, 5 per keyword, plus the share of printable ASCII in s[:3000]
_score_preview(p) ==
    LET head == Prefix(TextStrip(p.t), 3000)
        pts == (IF p.strong THEN 50 ELSE 0) + 5 * p.kw + 5 * p.cn
    IN  IF head = <<>> THEN Rat(-1, 1)
        ELSE Rat(pts * TextLen(head) + CountIn(head, AsciiClasses), TextLen(head))

\* lines 293-301: first three, last three and every step-th page
Candidates(page_count, k) ==
    LET step == Max(1, page_count \div Max(12, k * 2))
    IN  Range(0, Min(3, page_count) - 1)
        \cup Range(Max(0, page_count - 3), page_count - 1)
        \cup {i \in 0..(page_count - 1) : i % step = 0}

RECURSIVE SortedAsc(_)
\* sorted(S)
SortedAsc(S) ==
    IF S = {} THEN <<>>
    ELSE LET lo == CHOOSE x \in S : \A y \in S : x <= y
         IN  <<lo>> \o SortedAsc(S \ {lo})

\* lines 362-379: the score of every candidate; -1.0 where load_page raises,
\* 0.0 everywhere when fitz cannot open the file
Previews(cands, pages, fitz_ok) ==
    [idx \in cands |->
        IF ~fitz_ok THEN Rat(0, 1)
        ELSE IF PreviewOf(pages[idx]).raises THEN Rat(-1, 1)
        ELSE _score_preview(PreviewOf(pages[idx]))]

RatLt(a, b) == ~RatLe(b, a)

RECURSIVE Ranked(_, _)
\* sorted(previews.items(), key=score, reverse=True): a stable sort, equal
\* scores stay in index order
Ranked(S, pv) ==
    IF S = {} THEN <<>>
    ELSE LET b == CHOOSE i \in S :
                    \A j \in S \ {i} : RatLt(pv[j], pv[i]) \/ (pv[j] = pv[i] /\ i < j)
         IN  <<b>> \o Ranked(S \ {b}, pv)

Elems(q) == {q[i] : i \in 1..Len(q)}

RECURSIVE FilterNonNeg(_, _)
\* [idx for idx, sc in ranked if sc >= 0]
FilterNonNeg(q, pv) ==
    IF q = <<>> THEN <<>>
    ELSE (IF RatLe(Rat(0, 1), pv[Head(q)]) THEN <<Head(q)>> ELSE <<>>)
         \o FilterNonNeg(Tail(q), pv)

\* the fill loop left out
Fill_None(cs, picked, k) == picked

RECURSIVE Fill(_, _, _)
\* lines 386-390: append the candidates not yet picked, in index order, until
\* k are picked
Fill(cs, picked, k) ==
    IF cs = <<>> THEN picked
    ELSE LET p2 == IF Head(cs) \in Elems(picked) THEN picked
                   ELSE Append(picked, Head(cs))
         IN  IF Len(p2) >= k THEN p2 ELSE Fill(Tail(cs), p2, k)

\* _pick_pages_smart
_pick_pages_smart(page_count, k0, pages, fitz_ok) ==
    IF page_count <= 0 THEN <<>>
    ELSE LET k == Max(1, k0)
         IN  IF page_count <= k THEN SortedAsc(Range(0, page_count - 1))
             ELSE LET cands == SortedAsc(Candidates(page_count, k))
                      previews == Previews(Elems(cands), pages, fitz_ok)
                      ranked == Ranked(Elems(cands), previews)
                      nonneg == FilterNonNeg(ranked, previews)
                      picked == SubSeq(nonneg, 1, Min(k, Len(nonneg)))
                      filled == IF Len(picked) < k THEN Fill(cands, picked, k)
                                ELSE picked
                  IN  SortedAsc(Elems(filled))

MaxPages == 5

MaxK == 3

\* documents of up to MaxPages pages of every kind mix, and long documents
\* that are uniform but for one or two pages
ShortDocs ==
    UNION {[0..(n - 1) -> {"blank", "cjk", "ascii", "strong"}] : n \in 0..MaxPages}

LongCounts == {13, 30, 100}

Uniform(n, kind) == [i \in 0..(n - 1) |-> kind]

LongDocs ==
    UNION {{Uniform(n, bg) : bg \in {"blank", "space", "mixed", "broken"}}
           \cup {[Uniform(n, bg) EXCEPT ![i] = "strong", ![j] = other] :
                    bg \in {"blank", "ascii"}, i \in {0, 3, n - 4, n - 1},
                    j \in {1, n \div 2}, other \in {"broken", "mixed", "space"}}
           : n \in LongCounts}

InitPick ==
    /\ pc = "pick"
    /\ pick \in [pc : {"call"}, pages : ShortDocs \cup LongDocs, k : 0..MaxK,
                 fitz_ok : BOOLEAN, previews : {<<>>}, picked : {<<>>}]
    /\ data = ExtractedFinancials
    /\ IdleMerge /\ IdleCompute /\ IdleSave /\ IdleFilter /\ IdleRun
    /\ IdleTx /\ IdleOcr /\ IdleDates /\ IdleGarbled /\ IdleBg

PageCount(pages) == Cardinality(DOMAIN pages)

pickOthers == <<pc, data, mergeVars, metrics, saveVars, probe, run,
                tx, ocr, dates, gprobe, bgVars>>

\* lines 284-392; previews is kept as the code leaves it
PickPagesSmart ==
    /\ pick.pc = "call"
    /\ LET n == PageCount(pick.pages)
           k == Max(1, pick.k)
       IN  pick' = [pick EXCEPT
                      !.pc = "done",
                      !.previews = IF n <= k THEN <<>>
                                   ELSE Previews(Candidates(n, k), pick.pages,
                                                 pick.fitz_ok),
                      !.picked = _pick_pages_smart(n, pick.k, pick.pages,
                                                   pick.fitz_ok)]
    /\ UNCHANGED pickOthers

NextPick == PickPagesSmart

SpecPick == InitPick /\ [][NextPick]_vars

----------------------------------------------------------------------------
(* Claims on _pick_pages_smart and _score_preview.                          *)

\* C18: for every page_count >= 1, every budget k and every assignment of
\* preview scores (all negative included) the result is a strictly ascending
\* list of distinct indices within [0, page_count) of length exactly
\* min(max(1, k), page_count); when page_count <= k it is all pages in order.
C18_PickShape ==
    (pick.pc = "done" /\ PageCount(pick.pages) >= 1) =>
        LET n == PageCount(pick.pages)
            r == pick.picked
        IN  /\ \A i \in 1..Len(r) : 0 <= r[i] /\ r[i] < n
            /\ \A i, j \in 1..Len(r) : i < j => r[i] < r[j]
            /\ Len(r) = Min(Max(1, pick.k), n)
            /\ n <= pick.k => r = [i \in 1..n |-> i - 1]

\* a long document without one page of score >= 0 still yields k pages
C18_Witness ==
    /\ pick.pc = "done" /\ pick.fitz_ok
    /\ PageCount(pick.pages) = 30 /\ pick.k = 3
    /\ \A idx \in DOMAIN pick.previews : RatLt(pick.previews[idx], Rat(0, 1))
    /\ pick.picked = <<0, 1, 2>>

\* C19: an empty or whitespace-only preview scores below zero and every other
\* preview at least zero; and a candidate page with a negative score is
\* selected only when fewer than k candidates score at least zero, so never
\* in place of an unselected candidate that does.
C19_NegativeLast ==
    pick.pc = "done" =>
        LET k == Max(1, pick.k)
            pv == pick.previews
            nonneg == {i \in DOMAIN pv : RatLe(Rat(0, 1), pv[i])}
        IN  /\ \A kind \in {"blank", "space", "cjk", "mixed", "ascii", "strong"} :
                   LET p == PreviewOf(kind)
                   IN  IF TextStrip(p.t) = <<>>
                       THEN RatLt(_score_preview(p), Rat(0, 1))
                       ELSE RatLe(Rat(0, 1), _score_preview(p))
            /\ \A i \in Elems(pick.picked) \cap DOMAIN pv :
                   RatLt(pv[i], Rat(0, 1)) =>
                       /\ Cardinality(nonneg) < k
                       /\ nonneg \subseteq Elems(pick.picked)

\* a blank page is taken along with the only two pages that score
C19_Witness ==
    /\ pick.pc = "done" /\ pick.fitz_ok /\ pick.k = 3
    /\ PageCount(pick.pages) = 5
    /\ \E i \in Elems(pick.picked) : pick.pages[i] = "blank"
    /\ Cardinality({i \in DOMAIN pick.previews :
                       RatLe(Rat(0, 1), pick.previews[i])}) = 2

----------------------------------------------------------------------------
(* SpecDate: the reporting-period inference of extract_financials_from_pdf  *)
(* (lines 91-146) on the date-like matches the patterns find in a text.     *)

\* month_map.get(str(m).lower().strip(), 0) for a month word
month_map(w) ==
    CASE w = "january" -> 1 [] w = "february" -> 2 [] w = "march" -> 3
      [] w = "april" -> 4 [] w = "may" -> 5 [] w = "june" -> 6
      [] w = "july" -> 7 [] w = "august" -> 8 [] w = "september" -> 9
      [] w = "october" -> 10 [] w = "november" -> 11 [] w = "december" -> 12
      [] OTHER -> 0

\* a match: the year's four digits, a month word (lower-cased) or number, the
\* day's one or two digits
WordMatch(y, w, d) == [y |-> y, word |-> TRUE, w |-> w, m |-> 0, d |-> d]

NumMatch(y, m, d) == [y |-> y, word |-> FALSE, w |-> "", m |-> m, d |-> d]

RawMatches ==
    {WordMatch(2023, "december", 31), WordMatch(2024, "march", 31),
     WordMatch(2022, "june", 30), WordMatch(2025, "sept", 30),
     WordMatch(2024, "february", 31), WordMatch(2024, "march", 32),
     NumMatch(2024, 3, 1), NumMatch(2024, 13, 1), NumMatch(2024, 0, 15),
     NumMatch(2024, 12, 0), NumMatch(1900, 12, 31), NumMatch(1901, 1, 1),
     NumMatch(2023, 9, 30), NumMatch(2024, 12, 31)}

MaxMatches == 3

\* _add_date with the year test off by one
_add_date_From1900(raw, cands) ==
    LET mi == IF raw.word THEN month_map(raw.w) ELSE raw.m
    IN  IF raw.y < 1900 \/ mi <= 0 \/ mi > 12 \/ raw.d <= 0 \/ raw.d > 31
        THEN cands
        ELSE Append(cands, <<raw.y, mi, raw.d>>)

\* _add_date: the candidates after the call
_add_date(raw, cands) ==
    LET mi == IF raw.word THEN month_map(raw.w) ELSE raw.m
    IN  IF raw.y <= 1900 \/ mi <= 0 \/ mi > 12 \/ raw.d <= 0 \/ raw.d > 31
        THEN cands
        ELSE Append(cands, <<raw.y, mi, raw.d>>)

\* the order of Python tuples
TupleLe(a, b) ==
    \/ a[1] < b[1]
    \/ a[1] = b[1] /\ a[2] < b[2]
    \/ a[1] = b[1] /\ a[2] = b[2] /\ a[3] <= b[3]

\* max(date_candidates)
MaxDate(cands) ==
    CHOOSE c \in Elems(cands) : \A o \in Elems(cands) : TupleLe(o, c)

DigitChar(n) == CHOOSE c \in Digits : DigitVal(c) = n

RECURSIVE Pad(_, _)
\* f"{n:0{width}d}" for n >= 0
Pad(n, width) ==
    IF width <= 1 /\ n < 10 THEN <<DigitChar(n)>>
    ELSE Pad(n \div 10, width - 1) \o <<DigitChar(n % 10)>>

\* f"{yy:04d}-{mm:02d}-{dd:02d}"
FormatPeriod(c) == Pad(c[1], 4) \o <<"-">> \o Pad(c[2], 2) \o <<"-">> \o Pad(c[3], 2)

InitDate ==
    /\ pc = "dates"
    /\ dates \in [pc : {"scan"},
                  matches : UNION {[1..n -> RawMatches] : n \in 0..MaxMatches},
                  date_candidates : {<<>>}, seen : {0},
                  report_period : {Null}, report_year : {Null}]
    /\ data = ExtractedFinancials
    /\ IdleMerge /\ IdleCompute /\ IdleSave /\ IdleFilter /\ IdleRun
    /\ IdleTx /\ IdleOcr /\ IdlePick /\ IdleGarbled /\ IdleBg

dateOthers == <<pc, data, mergeVars, metrics, saveVars, probe, run,
                tx, ocr, pick, gprobe, bgVars>>

\* lines 107-141: the next match goes through _add_date
AddDate ==
    /\ dates.pc = "scan" /\ dates.seen < Len(dates.matches)
    /\ dates' = [dates EXCEPT
                   !.seen = @ + 1,
                   !.date_candidates = _add_date(dates.matches[dates.seen + 1], @)]
    /\ UNCHANGED dateOthers

\* lines 143-146
SelectPeriod ==
    /\ dates.pc = "scan" /\ dates.seen = Len(dates.matches)
    /\ dates' = IF dates.date_candidates # <<>>
                THEN LET c == MaxDate(dates.date_candidates)
                     IN  [dates EXCEPT !.pc = "done",
                                       !.report_year = Str(Pad(c[1], 1)),
                                       !.report_period = Str(FormatPeriod(c))]
                ELSE [dates EXCEPT !.pc = "done"]
    /\ UNCHANGED dateOthers

NextDate == AddDate \/ SelectPeriod

SpecDate == InitDate /\ [][NextDate]_vars

\* the matches that are dates: year > 1900, month 1..12, day 1..31
ValidDates(matches) ==
    {c \in {<<matches[i].y,
              IF matches[i].word THEN month_map(matches[i].w) ELSE matches[i].m,
              matches[i].d>> : i \in 1..Len(matches)} :
        c[1] > 1900 /\ 1 <= c[2] /\ c[2] <= 12 /\ 1 <= c[3] /\ c[3] <= 31}

\* C13: every candidate kept has year > 1900, 1 <= month <= 12 and
\* 1 <= day <= 31; with at least one valid candidate report_period is the
\* maximum by (year, month, day) over all valid candidates, written
\* YYYY-MM-DD, and report_year is its year; with none both stay null.
C13_LatestDate ==
    /\ \A i \in 1..Len(dates.date_candidates) :
           LET c == dates.date_candidates[i]
           IN  c[1] > 1900 /\ 1 <= c[2] /\ c[2] <= 12 /\ 1 <= c[3] /\ c[3] <= 31
    /\ dates.pc = "done" =>
           LET valid == ValidDates(dates.matches)
               p == dates.report_period.s
           IN  IF valid = {}
               THEN IsNone(dates.report_period) /\ IsNone(dates.report_year)
               ELSE /\ dates.report_period.t = "str" /\ Len(p) = 10
                    /\ p[5] = "-" /\ p[8] = "-"
                    /\ LET got == <<DigitsValue(SubSeq(p, 1, 4), 0),
                                    DigitsValue(SubSeq(p, 6, 7), 0),
                                    DigitsValue(SubSeq(p, 9, 10), 0)>>
                       IN  /\ got \in valid
                           /\ \A o \in valid : TupleLe(o, got)
                           /\ dates.report_year.t = "str"
                           /\ DigitsValue(dates.report_year.s, 0) = got[1]

\* the three dates of the specification's example, in that order
C13_Witness ==
    /\ dates.pc = "done"
    /\ dates.matches = <<WordMatch(2023, "december", 31), WordMatch(2024, "march", 31),
                         WordMatch(2022, "june", 30)>>
    /\ dates.report_period = Str(<<"2", "0", "2", "4", "-", "0", "3", "-", "3", "1">>)
    /\ dates.report_year = Str(<<"2", "0", "2", "4">>)

----------------------------------------------------------------------------
(* SpecBg: the background threads of api.py. Each thread runs               *)
(* run_pdf_analysis_in_background(report_id, pdf_path) once, started by the *)
(* upload or the reanalyze endpoint; the threads share _PDF_ANALYSIS_SEM    *)
(* and the reports and computed_metrics tables. A session_scope() block is  *)
(* two steps, the load of the Report row and the commit; the commit writes  *)
(* a column only if its value differs from the loaded one (the unit of work *)
(* of the ORM emits no UPDATE for an unchanged attribute).                  *)

MaxRuns == 2

Threads == 1..MaxRuns

ReportIds == {"r1", "r2"}

\* metric_code of the rows one successful run inserts
SavedCodes == {"ROE", "IS.REVENUE"}

\* rows an earlier, finished analysis of r1 left (writer 0)
OldRows == {[report_id |-> "r1", metric_code |-> c, by |-> 0] : c \in SavedCodes}

NoThread ==
    [pc |-> "idle", report_id |-> "", pass |-> 0, financials |-> "none",
     err |-> "", loaded |-> "", acquires |-> 0, releases |-> 0]

InitBg ==
    /\ pc = "bg"
    /\ env \in [concurrency : {1, 2}, force_ai : BOOLEAN, ai_ready : BOOLEAN]
    /\ sem = env.concurrency
    /\ report = [r \in ReportIds |-> "pending"]
    /\ computed_metrics = OldRows
    /\ th = [i \in Threads |-> NoThread]
    /\ data = ExtractedFinancials
    /\ IdleMerge /\ IdleCompute /\ IdleSave /\ IdleFilter /\ IdleRun
    /\ IdleTx /\ IdleOcr /\ IdlePick /\ IdleDates /\ IdleGarbled

\* a thread that has returned: its locals are gone
Ended(t) ==
    [NoThread EXCEPT !.pc = "ended", !.report_id = t.report_id,
                     !.acquires = t.acquires, !.releases = t.releases]

bgOthers == <<pc, data, mergeVars, metrics, saveVars, probe, run,
              tx, ocr, pick, dates, gprobe, env>>

\* the commit of a session that loaded status `loaded` and assigned `value`
Commit(r, loaded, value) ==
    report' = IF value = loaded THEN report ELSE [report EXCEPT ![r] = value]

\* reanalyze_uploaded_report and upload_report: the endpoint sets the status
\* to running and starts the thread. Threads start in the order of their
\* numbers and the first one works on r1.
StartRun(i) ==
    /\ th[i].pc = "idle"
    /\ i > 1 => th[i - 1].pc # "idle"
    /\ \E r \in ReportIds :
         /\ i = 1 => r = "r1"
         /\ report' = [report EXCEPT ![r] = "running"]
         /\ th' = [th EXCEPT ![i].pc = "begin", ![i].report_id = r]
    /\ UNCHANGED <<sem, computed_metrics, bgOthers>>

\* a session loads the Report row (lines 2825, 2833, 3068)
Load(i, from, to) ==
    /\ th[i].pc = from
    /\ th' = [th EXCEPT ![i].pc = to, ![i].loaded = report[th[i].report_id]]
    /\ UNCHANGED <<sem, report, computed_metrics, bgOthers>>

\* lines 2824-2828: r.status = "running"
SetRunning(i) ==
    /\ th[i].pc = "running_commit"
    /\ Commit(th[i].report_id, th[i].loaded, "running")
    /\ th' = [th EXCEPT ![i].pc = "try_acquire", ![i].loaded = ""]
    /\ UNCHANGED <<sem, computed_metrics, bgOthers>>

\* lines 2840-2907, the thread holding a permit: FORCE_PDF_AI=1 without
\* ENABLE_PDF_AI or a key raises ai_required_no_api_key; otherwise the first
\* worker process is started
EnterSection(t) ==
    IF env.force_ai /\ ~env.ai_ready
    THEN [t EXCEPT !.pc = "release", !.acquires = @ + 1,
                   !.err = "ai_required_no_api_key"]
    ELSE [t EXCEPT !.pc = "worker", !.acquires = @ + 1, !.pass = 1]

\* line 2830: _PDF_ANALYSIS_SEM.acquire(blocking=False)
TryAcquire(i) ==
    /\ th[i].pc = "try_acquire"
    /\ IF sem > 0
       THEN /\ sem' = sem - 1
            /\ th' = [th EXCEPT ![i] = EnterSection(th[i])]
       ELSE /\ sem' = sem
            /\ th' = [th EXCEPT ![i].pc = "queued"]
    /\ UNCHANGED <<report, computed_metrics, bgOthers>>

\* lines 2832-2837: r.status = "pending" with the queued message
SetPending(i) ==
    /\ th[i].pc = "pending_commit"
    /\ Commit(th[i].report_id, th[i].loaded, "pending")
    /\ th' = [th EXCEPT ![i].pc = "wait", ![i].loaded = ""]
    /\ UNCHANGED <<sem, computed_metrics, bgOthers>>

\* Acquire that takes a permit although none is left
Acquire_Unguarded(i) ==
    /\ th[i].pc = "wait"
    /\ sem' = IF sem > 0 THEN sem - 1 ELSE sem
    /\ th' = [th EXCEPT ![i] = EnterSection(th[i])]
    /\ UNCHANGED <<report, computed_metrics, bgOthers>>

\* line 2838: _PDF_ANALYSIS_SEM.acquire() blocks until a permit is free; the
\* status is not written again before the extraction
Acquire(i) ==
    /\ th[i].pc = "wait"
    /\ sem > 0
    /\ sem' = sem - 1
    /\ th' = [th EXCEPT ![i] = EnterSection(th[i])]
    /\ UNCHANGED <<report, computed_metrics, bgOthers>>

\* what _run_with_hard_timeout ends with: the worker's struct (with metrics,
\* all null, or with a report_period the AI merge made a float), the hard
\* timeout, or a worker that crashed or sent an error
WorkerOutcomes(use_ai) ==
    {"data", "no_data", "pdf_extract_timeout", "pdf_extract_failed"}
    \cup (IF use_ai THEN {"float_period"} ELSE {})

IsStruct(o) == o \in {"data", "no_data", "float_period"}

\* lines 2842-2926: _pdf_extract_worker in a process, joined with a timeout.
\* Forced mode runs one worker and lets its error propagate; otherwise the
\* worker without AI runs first and, with AI enabled and a key, a second one
\* whose struct replaces the first
WorkerEnds(i) ==
    /\ th[i].pc = "worker"
    /\ \E o \in WorkerOutcomes(env.force_ai \/ th[i].pass = 2) :
         IF env.force_ai
         THEN th' = [th EXCEPT ![i].pc = "release",
                               ![i].financials = IF IsStruct(o) THEN o ELSE @,
                               ![i].err = IF IsStruct(o) THEN @ ELSE o]
         ELSE IF th[i].pass = 1 /\ env.ai_ready
         THEN th' = [th EXCEPT ![i].pass = 2,
                               ![i].financials = IF IsStruct(o) THEN o ELSE @]
         ELSE th' = [th EXCEPT ![i].pc = "release",
                               ![i].financials = IF IsStruct(o) THEN o ELSE @]
    /\ UNCHANGED <<sem, report, computed_metrics, bgOthers>>

\* lines 2928-2943: "financials is None" raises; the finally block releases
Release(i) ==
    /\ th[i].pc = "release"
    /\ sem' = sem + 1
    /\ th' = [th EXCEPT
                ![i].releases = @ + 1,
                ![i].pass = 0,
                ![i].err = IF @ = "" /\ th[i].financials = "none"
                           THEN "pdf_extract_failed" ELSE @,
                ![i].pc = IF th[i].err # "" \/ th[i].financials = "none"
                          THEN "except" ELSE "save"]
    /\ UNCHANGED <<report, computed_metrics, bgOthers>>

\* line 2952 and repository.delete_report_children: a session of its own,
\* committed at once, deletes every row of the report
DeleteChildren(i) ==
    /\ th[i].pc = "delete"
    /\ computed_metrics' =
          {row \in computed_metrics : row.report_id # th[i].report_id}
    /\ th' = [th EXCEPT ![i].pc = "save_commit"]
    /\ UNCHANGED <<sem, report, bgOthers>>

RowsOf(i) ==
    {[report_id |-> th[i].report_id, metric_code |-> c, by |-> i] :
        c \in SavedCodes}

\* lines 2954-3062: report_period.endswith on a float raises (the session
\* rolls back); otherwise the rows and the status are committed together:
\* done with metrics_to_save or has_some_raw, failed without
SaveCommit(i) ==
    /\ th[i].pc = "save_commit"
    /\ IF th[i].financials = "float_period"
       THEN /\ th' = [th EXCEPT ![i].pc = "except", ![i].loaded = "",
                                  ![i].err = "AttributeError"]
            /\ UNCHANGED <<report, computed_metrics>>
       ELSE /\ computed_metrics' =
                  computed_metrics
                  \cup (IF th[i].financials = "data" THEN RowsOf(i) ELSE {})
            /\ Commit(th[i].report_id, th[i].loaded,
                      IF th[i].financials = "data" THEN "done" ELSE "failed")
            /\ th' = [th EXCEPT ![i] = Ended(th[i])]
    /\ UNCHANGED <<sem, bgOthers>>

\* the handler returning without a commit
Fail_KeepStatus(i) ==
    /\ th[i].pc = "failed_commit"
    /\ th' = [th EXCEPT ![i] = Ended(th[i])]
    /\ UNCHANGED <<sem, report, computed_metrics, bgOthers>>

\* lines 3063-3078: the handler sets the status to failed
Fail(i) ==
    /\ th[i].pc = "failed_commit"
    /\ Commit(th[i].report_id, th[i].loaded, "failed")
    /\ th' = [th EXCEPT ![i] = Ended(th[i])]
    /\ UNCHANGED <<sem, computed_metrics, bgOthers>>

ThreadStep(i) ==
    \/ Load(i, "begin", "running_commit")
    \/ SetRunning(i)
    \/ TryAcquire(i)
    \/ Load(i, "queued", "pending_commit")
    \/ SetPending(i)
    \/ WorkerEnds(i)
    \/ Release(i)
    \/ Load(i, "save", "delete")
    \/ DeleteChildren(i)
    \/ SaveCommit(i)
    \/ Load(i, "except", "failed_commit")
    \/ Fail(i)

NextBg == \E i \in Threads : StartRun(i) \/ ThreadStep(i) \/ Acquire(i)

SpecBg == InitBg /\ [][NextBg]_vars

\* every step of a started thread is eventually taken, and a thread waiting
\* in acquire() gets a permit if permits keep being released
SpecBgFair ==
    /\ SpecBg
    /\ \A i \in Threads : WF_vars(ThreadStep(i)) /\ SF_vars(Acquire(i))

----------------------------------------------------------------------------
(* Claims on run_pdf_analysis_in_background.                                *)

\* the thread is between its acquire and its release
InSection(i) == th[i].pc \in {"worker", "release"}

\* the thread was started and has not returned
Active(i) == th[i].pc \notin {"idle", "ended"}

\* C25: after any interleaving of background runs for the same report (a
\* re-analysis started while an earlier run is in progress), once all runs
\* have finished the persisted metrics of the report hold at most one row per
\* metric code, all written by a single run.
C25_SingleWriter ==
    \A r \in ReportIds :
        (\A i \in Threads : th[i].report_id = r => ~Active(i)) =>
            LET rows == {row \in computed_metrics : row.report_id = r}
            IN  /\ \A a, b \in rows : a.metric_code = b.metric_code => a = b
                /\ \A a, b \in rows : a.by = b.by

\* C27: every run for an existing report, given that the semaphore is
\* eventually granted and the worker finishes or is cut off by the hard
\* timeout, ends; and once it has ended (success, timeout, worker crash,
\* missing credential, no extractable data) with no other run of the report
\* in progress, the status is done or failed, never running or pending.
C27_EndsDoneOrFailed ==
    /\ \A i \in Threads : (th[i].pc = "begin") ~> (th[i].pc = "ended")
    /\ [](\A i \in Threads :
            (/\ th[i].pc = "ended"
             /\ \A j \in Threads : th[j].report_id = th[i].report_id => ~Active(j))
               => report[th[i].report_id] \in {"done", "failed"})

\* a run that went through the handler (timeout, crash or missing credential:
\* the old rows are still there) has ended and left failed; a later run of the
\* report is about to save
C27_Witness ==
    /\ th[1].pc = "ended"
    /\ th[2].pc = "save_commit" /\ th[2].financials = "data"
    /\ th[2].report_id = "r1" /\ report["r1"] = "failed"
    /\ \A row \in computed_metrics : row.report_id = "r1" => row.by = 0

\* C28: at any time at most PDF_ANALYSIS_CONCURRENCY runs are inside the
\* extraction section; every run releases exactly the one permit it acquired
\* on every exit path and never one it did not acquire, so the semaphore is
\* back at its initial value whenever no run is inside.
C28_SemaphoreBound ==
    /\ Cardinality({i \in Threads : InSection(i)}) <= env.concurrency
    /\ sem + Cardinality({i \in Threads : InSection(i)}) = env.concurrency
    /\ \A i \in Threads :
          /\ th[i].releases <= th[i].acquires /\ th[i].acquires <= 1
          /\ InSection(i) => th[i].acquires = 1 /\ th[i].releases = 0
          /\ th[i].pc \in {"save", "delete", "save_commit", "except",
                           "failed_commit", "ended"}
                => th[i].acquires = 1 /\ th[i].releases = 1
    /\ (\A i \in Threads : ~InSection(i)) => sem = env.concurrency

\* one run left through the forced-AI credential error, the next is inside
C28_Witness ==
    /\ th[1].pc = "ended" /\ th[1].releases = 1
    /\ th[2].pc = "release" /\ th[2].err = "ai_required_no_api_key"
    /\ sem = env.concurrency - 1

\* C29: whenever a run holds the semaphore and its extraction worker is
\* executing, the status of its report is running; pending, with the queued
\* message, is visible only while the run is still waiting for the semaphore.
C29_RunningWhileExtracting ==
    /\ \A i \in Threads :
          th[i].pc = "worker" => report[th[i].report_id] = "running"
    /\ \A r \in ReportIds :
          report[r] = "pending" =>
              (\/ \A i \in Threads : th[i].report_id # r
               \/ \E i \in Threads : th[i].report_id = r /\ th[i].pc = "wait")

====
